---------------------------- MODULE Spec2Model ----------------------------
(***************************************************************************)
(* Model of the sell-through dashboard's data pipeline                     *)
(* (services/dataProcessing: cleanNumber, formatDate, parseExcelFile,      *)
(* parseCorteFile, aggregateBy, prepareDataTable, calculateMetrics,        *)
(* sortSizes) and of its Dashboard and DataUploader components.            *)
(*                                                                         *)
(* Conventions                                                             *)
(*  - a JS string is a sequence of one-character strings; an accented      *)
(*    letter is one element written with its accent after it ("o'" is o    *)
(*    acute, "c," is c cedilla, "a~" is a tilde, "e^" is e circumflex);    *)
(*  - a JS number is an exact rational <<n, d>> in lowest terms, d > 0     *)
(*    (binary rounding of IEEE doubles is not modelled); NaN is NaN;       *)
(*  - a value of type `any` (a worksheet cell) is a tagged record          *)
(*    [t |-> type, v |-> payload].                                         *)
(***************************************************************************)
EXTENDS Integers, Sequences, FiniteSets, TLC

\* ------------------------------------------------------------------ bounds
MaxSales == 3
MaxCortes == 2
MaxRows == 3

VARIABLES
    pc,          \* "input" while the arguments are chosen, then the function called
    data,        \* CleanedSaleRecord[] handed to the aggregation functions
    corteData,   \* CorteRecord[] handed to the aggregation functions
    tableData,   \* result of prepareDataTable(data, corteData)
    aggregated,  \* result of aggregateBy(data, groupKey, valueKey)
    aggArgs,     \* the groupKey / valueKey of that call
    rows,        \* the row matrix of the workbook handed to a parser
    timezone,    \* the host's time zone: minutes ahead of UTC
    parsed,      \* what the parser's promise settled to
    arg,         \* the cell value handed to cleanNumber or formatDate
    result,      \* what cleanNumber or formatDate returned for it
    metrics,     \* result of calculateMetrics(data, corteData)
    sizes,       \* AggregatedData[] handed to sortSizes
    sorted,      \* what sortSizes returned for it
    dash,        \* the state of the Dashboard component
    upl          \* the state of the DataUploader component and of its run

aggVars == <<data, corteData, tableData, aggregated, aggArgs>>
ingestVars == <<rows, timezone, parsed>>
fnVars == <<arg, result, metrics>>
vars == <<pc, data, corteData, tableData, aggregated, aggArgs, rows, timezone, parsed,
          arg, result, metrics, sizes, sorted, dash, upl>>
viewVars == <<sizes, sorted, dash, upl>>
\* Outside the components and sortSizes their variables are not used.
InitView == sizes = <<>> /\ sorted = <<>> /\ dash = <<>> /\ upl = <<>>

\* ------------------------------------------------------------ JS numbers
Abs(x) == IF x < 0 THEN -x ELSE x

RECURSIVE Gcd(_, _)
Gcd(a, b) == IF b = 0 THEN a ELSE Gcd(b, a % b)

\* The number n/d (d # 0) in lowest terms.
Rat(n, d) ==
    LET g == Gcd(Abs(n), Abs(d))
        s == IF d < 0 THEN -1 ELSE 1
    IN  <<(s * n) \div g, (s * d) \div g>>

\* The integer k as a number.
Num(k) == <<k, 1>>

NaN == <<"NaN">>

NumAdd(a, b) == Rat(a[1] * b[2] + b[1] * a[2], a[2] * b[2])
NumSub(a, b) == Rat(a[1] * b[2] - b[1] * a[2], a[2] * b[2])
NumMul(a, b) == Rat(a[1] * b[1], a[2] * b[2])
\* a / b for b # 0 (every division of the code is guarded by a test of b).
NumDiv(a, b) == Rat(a[1] * b[2], a[2] * b[1])
NumGt(a, b) == a[1] * b[2] > b[1] * a[2]
NumLt(a, b) == NumGt(b, a)
\* The sign of a number, as a sort comparator's result is used.
NumSign(a) == IF a[1] > 0 THEN 1 ELSE IF a[1] < 0 THEN -1 ELSE 0

\* ------------------------------------------------------------ JS strings
IndexOf(s, x) ==
    IF \E i \in 1..Len(s) : s[i] = x
    THEN CHOOSE i \in 1..Len(s) : s[i] = x /\ \A j \in 1..(i - 1) : s[j] # x
    ELSE 0

LowerLetters ==
    <<"a","b","c","d","e","f","g","h","i","j","k","l","m",
      "n","o","p","q","r","s","t","u","v","w","x","y","z",
      "a'","a~","a^","c,","e'","e^","i'","o'","o~","o^","u'">>
UpperLetters ==
    <<"A","B","C","D","E","F","G","H","I","J","K","L","M",
      "N","O","P","Q","R","S","T","U","V","W","X","Y","Z",
      "A'","A~","A^","C,","E'","E^","I'","O'","O~","O^","U'">>
Digits == <<"0","1","2","3","4","5","6","7","8","9">>
Whitespace == {" ", "\t", "\n"}

\* The case mappings, as tables over the letters of the model.
LowerOf ==
    [c \in {UpperLetters[i] : i \in 1..Len(UpperLetters)} |->
        LowerLetters[IndexOf(UpperLetters, c)]]
UpperOf ==
    [c \in {LowerLetters[i] : i \in 1..Len(LowerLetters)} |->
        UpperLetters[IndexOf(LowerLetters, c)]]
ToLowerChar(c) == IF c \in DOMAIN LowerOf THEN LowerOf[c] ELSE c
ToUpperChar(c) == IF c \in DOMAIN UpperOf THEN UpperOf[c] ELSE c

\* a mutation of ToLowerCase: the case is kept
KeepCase(s) == s

\* String.prototype.toLowerCase / toUpperCase
ToLowerCase(s) == [i \in 1..Len(s) |-> ToLowerChar(s[i])]
ToUpperCase(s) == [i \in 1..Len(s) |-> ToUpperChar(s[i])]

\* String.prototype.trim
RECURSIVE TrimStart(_)
TrimStart(s) ==
    IF s # <<>> /\ Head(s) \in Whitespace THEN TrimStart(Tail(s)) ELSE s
RECURSIVE TrimEnd(_)
TrimEnd(s) ==
    IF s # <<>> /\ s[Len(s)] \in Whitespace THEN TrimEnd(SubSeq(s, 1, Len(s) - 1)) ELSE s
Trim(s) == TrimEnd(TrimStart(s))

\* String.prototype.includes
Includes(s, k) ==
    \E i \in 0..(Len(s) - Len(k)) : \A j \in 1..Len(k) : s[i + j] = k[j]

\* The decimal digits of a natural number.
RECURSIVE NatToString(_)
NatToString(n) ==
    IF n < 10 THEN <<Digits[n + 1]>>
    ELSE NatToString(n \div 10) \o <<Digits[(n % 10) + 1]>>

\* The fraction digits of r / d, 0 <= r < d, for a d that divides a power of
\* ten (the numbers of the model are finite decimals).
RECURSIVE FracToString(_, _)
FracToString(r, d) ==
    IF r = 0 THEN <<>>
    ELSE <<Digits[((r * 10) \div d) + 1]>> \o FracToString((r * 10) % d, d)

\* Number.prototype.toString (String(n)) of a finite decimal.
NumToString(a) ==
    LET n == Abs(a[1])
        sign == IF a[1] < 0 THEN <<"-">> ELSE <<>>
        whole == NatToString(n \div a[2])
        frac == FracToString(n % a[2], a[2])
    IN  sign \o whole \o (IF frac = <<>> THEN <<>> ELSE <<".">> \o frac)

\* --------------------------------------- String.prototype.localeCompare
\* The default (root) collation: strings differ first by their letters
\* without accent and case, then by accent, then by case (lower first);
\* white space sorts before punctuation, punctuation before digits, digits
\* before letters.
Punctuation == <<"_","-",",",";",":","!","?",".","'","(",")","/","&","#","%","+","|","$">>
BaseLetters ==
    <<"a","b","c","d","e","f","g","h","i","j","k","l","m",
      "n","o","p","q","r","s","t","u","v","w","x","y","z",
      "a","a","a","c","e","e","i","o","o","o","u">>
AccentWeights == <<1, 2, 3, 1, 1, 2, 1, 1, 2, 3, 1>>

LetterIndex(c) == IndexOf(LowerLetters, ToLowerChar(c))

\* The three collation weights of each character of the model.
CollationOf ==
    [c \in Whitespace \cup {Punctuation[i] : i \in 1..Len(Punctuation)}
            \cup {Digits[i] : i \in 1..Len(Digits)} \cup DOMAIN LowerOf \cup DOMAIN UpperOf |->
        <<IF c \in Whitespace THEN 1
          ELSE IF IndexOf(Punctuation, c) # 0 THEN 1 + IndexOf(Punctuation, c)
          ELSE IF IndexOf(Digits, c) # 0 THEN 30 + IndexOf(Digits, c)
          ELSE 50 + IndexOf(LowerLetters, BaseLetters[LetterIndex(c)]),
          IF LetterIndex(c) > 26 THEN AccentWeights[LetterIndex(c) - 26] ELSE 0,
          IF c \in DOMAIN LowerOf THEN 1 ELSE 0>>]
PrimaryWeight(c) == IF c \in DOMAIN CollationOf THEN CollationOf[c][1] ELSE 100
SecondaryWeight(c) == IF c \in DOMAIN CollationOf THEN CollationOf[c][2] ELSE 0
TertiaryWeight(c) == IF c \in DOMAIN CollationOf THEN CollationOf[c][3] ELSE 0

\* Lexicographic comparison of two sequences of integers: -1, 0 or 1.
RECURSIVE LexCmp(_, _)
LexCmp(a, b) ==
    IF a = <<>> /\ b = <<>> THEN 0
    ELSE IF a = <<>> THEN -1
    ELSE IF b = <<>> THEN 1
    ELSE IF Head(a) < Head(b) THEN -1
    ELSE IF Head(a) > Head(b) THEN 1
    ELSE LexCmp(Tail(a), Tail(b))

LocaleCompare(a, b) ==
    LET p == LexCmp([i \in 1..Len(a) |-> PrimaryWeight(a[i])],
                    [i \in 1..Len(b) |-> PrimaryWeight(b[i])])
        s == LexCmp([i \in 1..Len(a) |-> SecondaryWeight(a[i])],
                    [i \in 1..Len(b) |-> SecondaryWeight(b[i])])
        t == LexCmp([i \in 1..Len(a) |-> TertiaryWeight(a[i])],
                    [i \in 1..Len(b) |-> TertiaryWeight(b[i])])
    IN  IF p # 0 THEN p ELSE IF s # 0 THEN s ELSE t

\* ------------------------------------------------------- calendar dates
\* Days since 1970-01-01 of a civil date, and back (the proleptic Gregorian
\* calendar of Date).
DaysFromCivil(y, m, d) ==
    LET yy == IF m <= 2 THEN y - 1 ELSE y
        era == yy \div 400
        yoe == yy - era * 400
        mp == IF m > 2 THEN m - 3 ELSE m + 9
        doy == (153 * mp + 2) \div 5 + d - 1
        doe == yoe * 365 + yoe \div 4 - yoe \div 100 + doy
    IN  era * 146097 + doe - 719468

CivilFromDays(days) ==
    LET z == days + 719468
        era == z \div 146097
        doe == z - era * 146097
        yoe == (doe - doe \div 1460 + doe \div 36524 - doe \div 146096) \div 365
        doy == doe - (365 * yoe + yoe \div 4 - yoe \div 100)
        mp == (5 * doy + 2) \div 153
        d == doy - (153 * mp + 2) \div 5 + 1
        m == IF mp < 10 THEN mp + 3 ELSE mp - 9
        y == yoe + era * 400 + (IF m <= 2 THEN 1 ELSE 0)
    IN  <<y, m, d>>

MinutesPerDay == 1440
\* A Date holds a time value of at most 8.64e15 ms, that is 100,000,000
\* days, either side of the epoch; beyond it the Date is invalid.
MaxDateDays == 100000000

\* a mutation of PadStart2: nothing is added
PadStartNone(s) == s
\* String(n).padStart(2, '0') of a string
PadStart2(s) == IF Len(s) < 2 THEN <<"0">> \o s ELSE s
\* a natural number in at least w digits
RECURSIVE PadNat(_, _)
PadNat(n, w) ==
    IF w <= 1 THEN NatToString(n)
    ELSE IF n < 10 THEN [i \in 1..(w - 1) |-> "0"] \o NatToString(n)
    ELSE PadNat(n \div 10, w - 1) \o <<Digits[(n % 10) + 1]>>

DayNames ==
    <<<<"S","u","n">>, <<"M","o","n">>, <<"T","u","e">>, <<"W","e","d">>,
      <<"T","h","u">>, <<"F","r","i">>, <<"S","a","t">>>>
MonthNames ==
    <<<<"J","a","n">>, <<"F","e","b">>, <<"M","a","r">>, <<"A","p","r">>,
      <<"M","a","y">>, <<"J","u","n">>, <<"J","u","l">>, <<"A","u","g">>,
      <<"S","e","p">>, <<"O","c","t">>, <<"N","o","v">>, <<"D","e","c">>>>
\* The time and zone part of Date.prototype.toString; it depends on the
\* host's zone and holds none of the keywords the parsers look for.
TimeZoneText ==
    <<" ","0","0",":","0","0",":","0","0"," ","G","M","T","+","0","0","0","0">>

\* Date.prototype.toString of the local date <<y, m, d>>
DateToString(ymd) ==
    DayNames[((DaysFromCivil(ymd[1], ymd[2], ymd[3]) + 4) % 7) + 1] \o <<" ">>
        \o MonthNames[ymd[2]] \o <<" ">> \o PadNat(ymd[3], 2) \o <<" ">>
        \o PadNat(ymd[1], 4) \o TimeZoneText

\* --------------------------------------------------------- values of `any`
StrVal(s) == [t |-> "string", v |-> s]
NumVal(n) == [t |-> "number", v |-> n]
\* a Date, by its local calendar fields
DateVal(y, m, d) == [t |-> "date", v |-> <<y, m, d>>]
BoolVal(b) == [t |-> "boolean", v |-> b]
Undefined == [t |-> "undefined", v |-> <<>>]
Null == [t |-> "null", v |-> <<>>]
\* An index of a sparse array that holds no element (sheet_to_json leaves
\* one for every empty cell); reading it gives undefined.
Hole == [t |-> "hole", v |-> <<>>]

\* ToBoolean, as `x || y` and `if (x)` apply it.
Truthy(val) ==
    CASE val.t = "string" -> val.v # <<>>
      [] val.t = "number" -> val.v # NaN /\ val.v[1] # 0
      [] val.t = "boolean" -> val.v
      [] val.t = "date" -> TRUE
      [] OTHER -> FALSE

\* String(val)
JSString(val) ==
    CASE val.t = "string" -> val.v
      [] val.t = "number" -> IF val.v = NaN THEN <<"N","a","N">> ELSE NumToString(val.v)
      [] val.t = "boolean" -> IF val.v THEN <<"t","r","u","e">> ELSE <<"f","a","l","s","e">>
      [] val.t = "date" -> DateToString(val.v)
      [] val.t = "null" -> <<"n","u","l","l">>
      [] OTHER -> <<"u","n","d","e","f","i","n","e","d">>

\* const normalizeStr = (val) => String(val || '').toLowerCase().trim()
normalizeStr(val) ==
    Trim(ToLowerCase(JSString(IF Truthy(val) THEN val ELSE StrVal(<<>>))))

\* ---------------------------------------------------------- cleanNumber
DigitSet == {Digits[i] : i \in 1..Len(Digits)}
DigitValue(c) == IndexOf(Digits, c) - 1

\* a mutation of LastIndexOf: the first occurrence is found
FirstIndexOf(s, c) == IndexOf(s, c) - 1

\* String.prototype.lastIndexOf of one character: a 0-based index, or -1
LastIndexOf(s, c) ==
    IF \E i \in 1..Len(s) : s[i] = c
    THEN (CHOOSE i \in 1..Len(s) : s[i] = c /\ \A j \in (i + 1)..Len(s) : s[j] # c) - 1
    ELSE -1

\* a mutation of RemoveAll: nothing is removed
RemoveNone(s, c) == s
\* s.replace(/c/g, '')
RemoveAll(s, c) == SelectSeq(s, LAMBDA x : x # c)
\* a mutation of ReplaceFirst: nothing is replaced
ReplaceNothing(s, c, r) == s
\* s.replace(c, r): the first occurrence only
ReplaceFirst(s, c, r) ==
    IF IndexOf(s, c) = 0 THEN s ELSE [s EXCEPT ![IndexOf(s, c)] = r]

\* The length of the run of digits of s that starts at position from (1-based).
RECURSIVE DigitRun(_, _)
DigitRun(s, from) ==
    IF from <= Len(s) /\ s[from] \in DigitSet THEN 1 + DigitRun(s, from + 1) ELSE 0

\* The value of a string of digits (0 for the empty string).
RECURSIVE DigitsValue(_)
DigitsValue(s) ==
    IF s = <<>> THEN 0
    ELSE 10 * DigitsValue(SubSeq(s, 1, Len(s) - 1)) + DigitValue(s[Len(s)])

RECURSIVE Pow10(_)
Pow10(k) == IF k = 0 THEN 1 ELSE 10 * Pow10(k - 1)

\* a mutation of ParseFloat: the digits after the '.' are dropped
ParseFloatInt(s) ==
    LET neg == s # <<>> /\ Head(s) = "-"
        start == IF neg THEN 2 ELSE 1
        nInt == DigitRun(s, start)
        mag == Num(DigitsValue(SubSeq(s, start, start + nInt - 1)))
    IN  IF nInt = 0 THEN NaN
        ELSE IF neg THEN NumSub(Num(0), mag) ELSE mag

\* parseFloat of a string of digits, ',', '.' and '-': the longest prefix
\* that is a decimal literal (sign, digits, '.', digits), or NaN.
ParseFloat(s) ==
    LET neg == s # <<>> /\ Head(s) = "-"
        start == IF neg THEN 2 ELSE 1
        nInt == DigitRun(s, start)
        hasDot == start + nInt <= Len(s) /\ s[start + nInt] = "."
        nFrac == IF hasDot THEN DigitRun(s, start + nInt + 1) ELSE 0
        intPart == DigitsValue(SubSeq(s, start, start + nInt - 1))
        fracPart == DigitsValue(SubSeq(s, start + nInt + 1, start + nInt + nFrac))
        mag == Rat(intPart * Pow10(nFrac) + fracPart, Pow10(nFrac))
    IN  IF nInt = 0 /\ nFrac = 0 THEN NaN
        ELSE IF neg THEN NumSub(Num(0), mag) ELSE mag

\* a mutation of OrZero: NaN is let through
OrZeroKeep(x) == x
\* x || 0 for a number x
OrZero(x) == IF x = NaN \/ x[1] = 0 THEN Num(0) ELSE x

cleanNumber(val) ==
    IF val.t = "number" THEN val.v
    ELSE IF val.t = "string" THEN
        LET clean0 == SelectSeq(Trim(val.v), LAMBDA c : c \in DigitSet \cup {",", ".", "-"})
            lastDotIndex == LastIndexOf(clean0, ".")
            lastCommaIndex == LastIndexOf(clean0, ",")
            clean ==
                IF lastDotIndex # -1 /\ lastCommaIndex # -1 THEN
                    IF lastCommaIndex > lastDotIndex
                    THEN ReplaceFirst(RemoveAll(clean0, "."), ",", ".")
                    ELSE RemoveAll(clean0, ",")
                ELSE IF lastCommaIndex # -1 THEN ReplaceFirst(clean0, ",", ".")
                ELSE IF lastDotIndex # -1 THEN
                    \* parts = clean.split('.'): the last part is what follows
                    \* the last '.'
                    IF Len(clean0) - (lastDotIndex + 1) = 3
                    THEN RemoveAll(clean0, ".")
                    ELSE clean0
                ELSE clean0
        IN  OrZero(ParseFloat(clean))
    ELSE Num(0)

\* ----------------------------------------------------------- formatDate
ptMonths ==
    <<<<"j","a","n">>, <<"f","e","v">>, <<"m","a","r">>, <<"a","b","r">>,
      <<"m","a","i">>, <<"j","u","n">>, <<"j","u","l">>, <<"a","g","o">>,
      <<"s","e","t">>, <<"o","u","t">>, <<"n","o","v">>, <<"d","e","z">>>>
AsciiLower == {LowerLetters[i] : i \in 1..26}

\* The first day a serial number may stand for: 2000-01-01.
MinSerial == 36526
\* The serial number of 1970-01-01.
EpochSerial == 25569
MinYear == 2000

\* v.match(/^(\d{1,2})\/(\d{1,2})\/(\d{2,4})/): the three groups, or <<>>
BrDateMatch(v) ==
    LET n1 == DigitRun(v, 1)
        p2 == n1 + 2
        n2 == DigitRun(v, p2)
        p3 == p2 + n2 + 1
        n3 == DigitRun(v, p3)
        nYear == IF n3 > 4 THEN 4 ELSE n3
    IN  IF /\ n1 \in {1, 2} /\ Len(v) > n1 /\ v[n1 + 1] = "/"
           /\ n2 \in {1, 2} /\ Len(v) >= p2 + n2 /\ v[p2 + n2] = "/"
           /\ n3 >= 2
        THEN <<SubSeq(v, 1, n1), SubSeq(v, p2, p2 + n2 - 1), SubSeq(v, p3, p3 + nYear - 1)>>
        ELSE <<>>

\* v.toLowerCase().match(/^([a-z]{3})[\s\-\/](\d{2,4})$/): the two groups, or <<>>
MonthYearMatch(v) ==
    LET w == ToLowerCase(v)
    IN  IF /\ Len(w) \in 6..8
           /\ \A i \in 1..3 : w[i] \in AsciiLower
           /\ w[4] \in Whitespace \cup {"-", "/"}
           /\ \A i \in 5..Len(w) : w[i] \in DigitSet
        THEN <<SubSeq(w, 1, 3), SubSeq(w, 5, Len(w))>>
        ELSE <<>>

\* v.match(/^\d{4}-\d{2}-\d{2}$/)
IsoMatch(v) ==
    /\ Len(v) = 10
    /\ \A i \in {1, 2, 3, 4, 6, 7, 9, 10} : v[i] \in DigitSet
    /\ v[5] = "-" /\ v[8] = "-"

\* a mutation of PromoteYear: every year is taken for a two-digit year
PromoteYearAlways(year) == year + 2000
\* if (year < 100) year += 2000
PromoteYear(year) == IF year < 100 THEN year + 2000 ELSE year

\* date.toISOString().split('T')[0] of the UTC day `days`
IsoDatePart(days) ==
    LET ymd == CivilFromDays(days)
        year == IF ymd[1] \in 0..9999 THEN PadNat(ymd[1], 4)
                ELSE (IF ymd[1] < 0 THEN <<"-">> ELSE <<"+">>) \o PadNat(Abs(ymd[1]), 6)
    IN  year \o <<"-">> \o PadNat(ymd[2], 2) \o <<"-">> \o PadNat(ymd[3], 2)

\* formatDate(val) on a host whose local time is tz minutes ahead of UTC
formatDate(val, tz) ==
    IF val.t \in {"null", "undefined", "hole"} \/ val = StrVal(<<>>) THEN <<>>
    ELSE IF val.t = "date" THEN
        IF val.v[1] < MinYear THEN <<>>
        ELSE NatToString(val.v[1]) \o <<"-">> \o PadStart2(NatToString(val.v[2]))
                \o <<"-">> \o PadStart2(NatToString(val.v[3]))
    ELSE IF val.t = "number" THEN
        \* new Date(Math.round((val - 25569) * 86400 * 1000)): x is the time in
        \* days since the epoch, day its UTC day. Rounding to the millisecond
        \* moves no serial number of fewer than five decimals across a minute.
        LET x == NumSub(val.v, Num(EpochSerial))
            day == x[1] \div x[2]
            rest == x[1] % x[2]
            localDay == day + (rest * MinutesPerDay + tz * x[2]) \div (MinutesPerDay * x[2])
        IN  IF NumLt(val.v, Num(MinSerial)) THEN <<>>
            ELSE IF day >= MaxDateDays /\ ~(day = MaxDateDays /\ rest = 0) THEN <<>>
            ELSE IF CivilFromDays(localDay)[1] < MinYear THEN <<>>
            ELSE IsoDatePart(day)
    ELSE IF val.t = "string" THEN
        LET v == Trim(val.v)
            br == BrDateMatch(v)
            my == MonthYearMatch(v)
        IN  IF br # <<>> THEN
                IF PromoteYear(DigitsValue(br[3])) < MinYear THEN <<>>
                ELSE NatToString(PromoteYear(DigitsValue(br[3]))) \o <<"-">>
                        \o PadStart2(br[2]) \o <<"-">> \o PadStart2(br[1])
            ELSE IF my # <<>> /\ IndexOf(ptMonths, my[1]) # 0 THEN
                IF PromoteYear(DigitsValue(my[2])) < MinYear THEN <<>>
                ELSE NatToString(PromoteYear(DigitsValue(my[2]))) \o <<"-">>
                        \o PadStart2(NatToString(IndexOf(ptMonths, my[1]))) \o <<"-">>
                        \o <<"0", "1">>
            ELSE IF IsoMatch(v) THEN
                IF DigitsValue(SubSeq(v, 1, 4)) < MinYear THEN <<>> ELSE v
            ELSE <<>>
    ELSE <<>>

\* ------------------------------------------------------------------ Map
\* A Map is the sequence of its entries [k, v] in insertion order.
MapIndex(m, k) ==
    IF \E i \in 1..Len(m) : m[i].k = k
    THEN CHOOSE i \in 1..Len(m) : m[i].k = k
    ELSE 0
MapHas(m, k) == MapIndex(m, k) # 0
MapGet(m, k) == m[MapIndex(m, k)].v
MapSet(m, k, v) ==
    IF MapHas(m, k)
    THEN [m EXCEPT ![MapIndex(m, k)] = [k |-> k, v |-> v]]
    ELSE Append(m, [k |-> k, v |-> v])
\* map.get(k) || 0
MapGetOrZero(m, k) ==
    IF MapHas(m, k) /\ Truthy(NumVal(MapGet(m, k))) THEN MapGet(m, k) ELSE Num(0)

\* ----------------------------------------------------- prepareDataTable
SemVenda == <<"S","e","m"," ","V","e","n","d","a">>

genKeyRaw(code, color, size) == code \o <<"|">> \o color \o <<"|">> \o size
genKey(code, color, size) ==
    normalizeStr(StrVal(code)) \o <<"|">> \o normalizeStr(StrVal(color))
        \o <<"|">> \o normalizeStr(StrVal(size))

\* The body of data.forEach in prepareDataTable.
SaleStepOverwrite(map, item) ==
    LET key == genKey(item.codigo, item.cor, item.tamanho)
    IN  MapSet(map, key,
               [id |-> key, codigo |-> item.codigo, produto |-> item.produto,
                cor |-> item.cor, tamanho |-> item.tamanho,
                qtdCortada |-> Num(0), qtdVendida |-> item.quantidade,
                faturado |-> item.valorTotal, percentualVendido |-> Num(0)])
SaleStep(map, item) ==
    LET key == genKey(item.codigo, item.cor, item.tamanho)
        m1 == IF ~MapHas(map, key)
              THEN MapSet(map, key,
                          [id |-> key, codigo |-> item.codigo, produto |-> item.produto,
                           cor |-> item.cor, tamanho |-> item.tamanho,
                           qtdCortada |-> Num(0), qtdVendida |-> Num(0),
                           faturado |-> Num(0), percentualVendido |-> Num(0)])
              ELSE map
        entry == MapGet(m1, key)
    IN  MapSet(m1, key,
               [entry EXCEPT !.qtdVendida = NumAdd(@, item.quantidade),
                             !.faturado = NumAdd(@, item.valorTotal)])

RECURSIVE ForEachSale(_, _)
ForEachSale(map, items) ==
    IF items = <<>> THEN map
    ELSE ForEachSale(SaleStep(map, Head(items)), Tail(items))

\* The body of corteData.forEach in prepareDataTable.
CorteStepKeepName(map, item) ==
    LET key == genKey(item.codigo, item.cor, item.tamanho)
    IN  IF MapHas(map, key)
        THEN MapSet(map, key,
                    [MapGet(map, key) EXCEPT
                        !.qtdCortada = NumAdd(@, item.quantidade),
                        !.produto = SemVenda])
        ELSE MapSet(map, key,
                    [id |-> key, codigo |-> item.codigo, produto |-> SemVenda,
                     cor |-> item.cor, tamanho |-> item.tamanho,
                     qtdCortada |-> item.quantidade, qtdVendida |-> Num(0),
                     faturado |-> Num(0), percentualVendido |-> Num(0)])
CorteStep(map, item) ==
    LET key == genKey(item.codigo, item.cor, item.tamanho)
    IN  IF MapHas(map, key)
        THEN MapSet(map, key,
                    [MapGet(map, key) EXCEPT !.qtdCortada = NumAdd(@, item.quantidade)])
        ELSE MapSet(map, key,
                    [id |-> key, codigo |-> item.codigo, produto |-> SemVenda,
                     cor |-> item.cor, tamanho |-> item.tamanho,
                     qtdCortada |-> item.quantidade, qtdVendida |-> Num(0),
                     faturado |-> Num(0), percentualVendido |-> Num(0)])

RECURSIVE ForEachCorte(_, _)
ForEachCorte(map, items) ==
    IF items = <<>> THEN map
    ELSE ForEachCorte(CorteStep(map, Head(items)), Tail(items))

\* const pct = entry.qtdCortada > 0 ? (entry.qtdVendida / entry.qtdCortada) * 100 : 0
SellThroughNoScale(entry) ==
    IF NumGt(entry.qtdCortada, Num(0))
    THEN NumDiv(entry.qtdVendida, entry.qtdCortada)
    ELSE Num(0)
SellThrough(entry) ==
    IF NumGt(entry.qtdCortada, Num(0))
    THEN NumMul(NumDiv(entry.qtdVendida, entry.qtdCortada), Num(100))
    ELSE Num(0)

\* .sort((a, b) => a.codigo.localeCompare(b.codigo)); Array.prototype.sort is
\* stable, so an element's place is the number of elements that sort before it.
SortByCodigo(s) ==
    LET before(j, i) ==
            \/ LocaleCompare(s[j].codigo, s[i].codigo) < 0
            \/ LocaleCompare(s[j].codigo, s[i].codigo) = 0 /\ j < i
        place(i) == Cardinality({j \in 1..Len(s) : before(j, i)}) + 1
    IN  [k \in 1..Len(s) |-> s[CHOOSE i \in 1..Len(s) : place(i) = k]]

prepareDataTable(sales, cortes) ==
    LET map == ForEachCorte(ForEachSale(<<>>, sales), cortes)
        values == [i \in 1..Len(map) |->
                      [map[i].v EXCEPT !.percentualVendido = SellThrough(map[i].v)]]
    IN  SortByCodigo(values)

\* ---------------------------------------------------------- aggregateBy
NumericFields == {"quantidade", "valorTotal", "estoque"}
\* item[key] as a value of type any
Field(item, key) ==
    IF key \in NumericFields THEN NumVal(item[key]) ELSE StrVal(item[key])

\* The body of data.forEach in aggregateBy on the three maps
\* [map, countMap, estoqueMap].
AggStepCountsValue(maps, item, groupKey, valueKey) ==
    LET group == JSString(Field(item, groupKey))
    IN  [map |-> MapSet(maps.map, group,
                        NumAdd(MapGetOrZero(maps.map, group), item[valueKey])),
         countMap |-> MapSet(maps.countMap, group,
                        NumAdd(MapGetOrZero(maps.countMap, group), item[valueKey])),
         estoqueMap |-> MapSet(maps.estoqueMap, group,
                        NumAdd(MapGetOrZero(maps.estoqueMap, group), item.estoque))]
AggStep(maps, item, groupKey, valueKey) ==
    LET group == JSString(Field(item, groupKey))
        currentVal == MapGetOrZero(maps.map, group)
        currentCount == MapGetOrZero(maps.countMap, group)
        currentEstoque == MapGetOrZero(maps.estoqueMap, group)
        addValue == item[valueKey]
    IN  [map |-> MapSet(maps.map, group, NumAdd(currentVal, addValue)),
         countMap |-> MapSet(maps.countMap, group, NumAdd(currentCount, item.quantidade)),
         estoqueMap |-> MapSet(maps.estoqueMap, group, NumAdd(currentEstoque, item.estoque))]

RECURSIVE AggForEach(_, _, _, _)
AggForEach(maps, items, groupKey, valueKey) ==
    IF items = <<>> THEN maps
    ELSE AggForEach(AggStep(maps, Head(items), groupKey, valueKey),
                    Tail(items), groupKey, valueKey)

\* .sort((a, b) => b.value - a.value), a stable sort
SortByValueAsc(s) ==
    LET before(j, i) ==
            \/ NumSign(NumSub(s[j].value, s[i].value)) < 0
            \/ NumSign(NumSub(s[j].value, s[i].value)) = 0 /\ j < i
        place(i) == Cardinality({j \in 1..Len(s) : before(j, i)}) + 1
    IN  [k \in 1..Len(s) |-> s[CHOOSE i \in 1..Len(s) : place(i) = k]]
SortByValueDesc(s) ==
    LET before(j, i) ==
            \/ NumSign(NumSub(s[i].value, s[j].value)) < 0
            \/ NumSign(NumSub(s[i].value, s[j].value)) = 0 /\ j < i
        place(i) == Cardinality({j \in 1..Len(s) : before(j, i)}) + 1
    IN  [k \in 1..Len(s) |-> s[CHOOSE i \in 1..Len(s) : place(i) = k]]

aggregateBy(sales, groupKey, valueKey) ==
    LET maps == AggForEach([map |-> <<>>, countMap |-> <<>>, estoqueMap |-> <<>>],
                           sales, groupKey, valueKey)
        entries == [i \in 1..Len(maps.map) |->
                       [name |-> maps.map[i].k,
                        value |-> maps.map[i].v,
                        count |-> MapGet(maps.countMap, maps.map[i].k),
                        estoque |-> MapGet(maps.estoqueMap, maps.map[i].k)]]
    IN  SortByValueDesc(entries)

\* The defaults of the text fields.
sOutros == <<"O","u","t","r","o","s">>
sNA == <<"N","/","A">>
sU == <<"U">>
\* ======================================================================
\* Ingestion: parseExcelFile and parseCorteFile on the row matrix that
\* XLSX.utils.sheet_to_json(sheet, {header: 1}) returns: one array per row,
\* with a hole for every empty cell.
\* ======================================================================
\* row[idx] for a 0-based idx
CellAt(row, idx) ==
    IF idx + 1 \in 1..Len(row) /\ row[idx + 1].t # "hole" THEN row[idx + 1] ELSE Undefined

\* const getVal = (idx) => (idx !== -1 && row[idx] !== undefined) ? row[idx] : null
getVal(row, idx) ==
    IF idx # -1 /\ CellAt(row, idx).t # "undefined" THEN CellAt(row, idx) ELSE Null

\* row.map(c => normalizeStr(c)): map leaves the holes of the array as holes
MapNormalizeStr(row) ==
    [i \in 1..Len(row) |->
        IF row[i].t = "hole" THEN Hole ELSE StrVal(normalizeStr(row[i]))]

\* strs.join(' '): a hole joins as the empty string
RECURSIVE JoinSpace(_)
JoinSpace(strs) ==
    IF strs = <<>> THEN <<>>
    ELSE IF Len(strs) = 1 THEN Head(strs).v
    ELSE Head(strs).v \o <<" ">> \o JoinSpace(Tail(strs))

\* keywords.forEach(k => { if (rowStr.includes(k)) matches++; })
KeywordMatches(row, keywords) ==
    LET rowStr == JoinSpace(MapNormalizeStr(row))
    IN  Cardinality({k \in 1..Len(keywords) : Includes(rowStr, keywords[k])})

\* The rows the header is looked for in, and the matches that make a header.
HeaderWindow == 10
MinKeywordMatches == 2

Min(a, b) == IF a < b THEN a ELSE b

\* a mutation of FindHeaderRowIndex: the header is looked for in every row
FindHeaderRowIndexAnywhere(rows_, keywords) ==
    LET hits == {i \in 1..Len(rows_) : KeywordMatches(rows_[i], keywords) >= MinKeywordMatches}
    IN  IF hits = {} THEN -1
        ELSE (CHOOSE i \in hits : \A j \in hits : i <= j) - 1

\* The loop that sets headerRowIndex: the 0-based index of the first of the
\* first 10 rows with at least 2 keywords, or -1.
FindHeaderRowIndex(rows_, keywords) ==
    LET window == 1..Min(Len(rows_), HeaderWindow)
        hits == {i \in window : KeywordMatches(rows_[i], keywords) >= MinKeywordMatches}
    IN  IF hits = {} THEN -1
        ELSE (CHOOSE i \in hits : \A j \in hits : i <= j) - 1

\* const headers = headerRowIndex !== -1 ? rows[headerRowIndex].map(h => normalizeStr(h)) : []
HeadersOf(rows_, headerRowIndex) ==
    IF headerRowIndex # -1 THEN MapNormalizeStr(rows_[headerRowIndex + 1]) ELSE <<>>

\* kws.some(k => h.includes(k)) for a header text h
HeaderHasKeyword(h, kws) == \E k \in 1..Len(kws) : Includes(h.v, kws[k])

\* findIndex visits every index, holes too, with undefined for a hole:
\* h.includes then throws a TypeError, unless an earlier cell has matched.
FindSpecificIdxThrows(headers, kws) ==
    \E i \in 1..Len(headers) :
        /\ headers[i].t = "hole"
        /\ \A j \in 1..(i - 1) : headers[j].t # "hole" /\ ~HeaderHasKeyword(headers[j], kws)

\* const findSpecificIdx = (kws) => headers.findIndex(h => kws.some(k => h.includes(k)))
\* where it does not throw: a 0-based index, or -1
findSpecificIdx(headers, kws) ==
    LET hits == {i \in 1..Len(headers) :
                    headers[i].t # "hole" /\ HeaderHasKeyword(headers[i], kws)}
    IN  IF hits = {} THEN -1 ELSE (CHOOSE i \in hits : \A j \in hits : i <= j) - 1

\* headers.findIndex(h => h === 'total')
FindExactIdx(headers, text) ==
    LET hits == {i \in 1..Len(headers) : headers[i] = StrVal(text)}
    IN  IF hits = {} THEN -1 ELSE (CHOOSE i \in hits : \A j \in hits : i <= j) - 1

\* a mutation of OrElse: no fallback
OrElseKeep(idx, fallback) == idx
\* if (idx === -1) idx = fallback
OrElse(idx, fallback) == IF idx = -1 THEN fallback ELSE idx

\* idxX !== -1 ? String(getVal(idxX) || dflt).trim() : dflt
TextField(row, idx, dflt) ==
    IF idx # -1
    THEN Trim(JSString(IF Truthy(getVal(row, idx)) THEN getVal(row, idx) ELSE StrVal(dflt)))
    ELSE dflt

\* rows.slice(headerRowIndex + 1), or rows when no header was found
DataRowsOf(rows_, headerRowIndex) ==
    IF headerRowIndex # -1 THEN SubSeq(rows_, headerRowIndex + 2, Len(rows_)) ELSE rows_

\* The states of a promise.
Pending == [status |-> "pending", value |-> <<>>]
Resolved(value) == [status |-> "resolved", value |-> value]
Rejected == [status |-> "rejected", value |-> <<>>]

\* ------------------------------------------------------- parseExcelFile
SalesKeywords ==
    <<<<"l","o","j","a">>, <<"f","i","l","i","a","l">>, <<"c","a","t","e","g","o","r","i","a">>, <<"p","r","o","d","u","t","o">>, <<"c","o","r">>, <<"t","a","m","a","n","h","o">>,
      <<"v","a","l","o","r">>, <<"t","o","t","a","l">>, <<"q","t","d">>, <<"q","u","a","n","t">>, <<"c","o'","d","i","g","o">>, <<"c","o","d","i","g","o">>>>
kwLoja == <<<<"l","o","j","a">>, <<"f","i","l","i","a","l">>>>
kwCategoria == <<<<"c","a","t","e","g","o","r","i","a">>>>
kwSub == <<<<"s","u","b">>, <<"g","r","u","p","o">>>>
kwProduto == <<<<"p","r","o","d","u","t","o">>, <<"d","e","s","c","r","i","c","a","o">>, <<"d","e","s","c","r","i","c,","a~","o">>>>
kwCodigo == 
    <<<<"c","o'","d","i","g","o">>, <<"c","o","d","i","g","o">>, <<"r","e","f","e","r","e^","n","c","i","a">>,
      <<"r","e","f","e","r","e","n","c","i","a">>, <<"r","e","f">>>>
kwCor == <<<<"c","o","r">>>>
kwTamanho == <<<<"t","a","m","a","n","h","o">>, <<"t","a","m">>>>
kwColecao == <<<<"c","o","l","e","c,","a~","o">>, <<"c","o","l","e","c","a","o">>>>
kwModelo == <<<<"m","o","d","e","l","o">>>>
kwEstoque == 
    <<<<"e","s","t","o","q","u","e">>, <<"s","a","l","d","o">>, <<"d","i","s","p","o","n","i","v","e","l">>,
      <<"d","i","s","p","o","n","i'","v","e","l">>, <<"a","t","u","a","l">>>>
kwQtd == <<<<"q","u","a","n","t">>, <<"q","t","d","e">>, <<"q","t","d">>, <<"p","e","c,","a","s">>, <<"p","e","c","a","s">>>>
kwLiquido == 
    <<<<"l","i'","q","u","i","d","o">>, <<"l","i","q","u","i","d","o">>,
      <<"v","e","n","d","a"," ","l","i'","q","u","i","d","a">>, <<"t","o","t","a","l"," ","l","i'","q","u","i","d","o">>>>
kwValorTotal == <<<<"v","a","l","o","r"," ","t","o","t","a","l">>, <<"v","e","n","d","a">>>>
kwValor == <<<<"v","a","l","o","r">>>>
kwData == <<<<"d","a","t","a">>, <<"e","m","i","s","s","a","o">>, <<"v","e","n","d","a">>, <<"p","e","r","i","o","d","o">>, <<"m","e^","s">>>>
sTotal == <<"t","o","t","a","l">>
sProduto == <<"P","r","o","d","u","t","o">>
sRowDash == <<"r","o","w","-">>

\* The fixed positions a field falls back to.
FallbackProd == 3
FallbackCodigo == 2
FallbackCor == 4
FallbackTam == 5
FallbackColecao == 6
FallbackModelo == 8
FallbackQtd == 10
FallbackVal == 14
FallbackData == 0

\* The column of each field of a sale record.
SalesColumns(headers) ==
    LET qtd0 == findSpecificIdx(headers, kwQtd)
        qtd1 == IF qtd0 = -1 THEN FindExactIdx(headers, sTotal) ELSE qtd0
        val0 == findSpecificIdx(headers, kwLiquido)
        val1 == IF val0 = -1 THEN findSpecificIdx(headers, kwValorTotal) ELSE val0
        val2 == IF val1 = -1 THEN findSpecificIdx(headers, kwValor) ELSE val1
    IN  [idxLoja |-> findSpecificIdx(headers, kwLoja),
         idxCat |-> findSpecificIdx(headers, kwCategoria),
         idxSub |-> findSpecificIdx(headers, kwSub),
         idxProd |-> OrElse(findSpecificIdx(headers, kwProduto), FallbackProd),
         idxCodigo |-> OrElse(findSpecificIdx(headers, kwCodigo), FallbackCodigo),
         idxCor |-> OrElse(findSpecificIdx(headers, kwCor), FallbackCor),
         idxTam |-> OrElse(findSpecificIdx(headers, kwTamanho), FallbackTam),
         idxColecao |-> OrElse(findSpecificIdx(headers, kwColecao), FallbackColecao),
         idxModelo |-> OrElse(findSpecificIdx(headers, kwModelo), FallbackModelo),
         idxEstoque |-> findSpecificIdx(headers, kwEstoque),
         idxQtd |-> OrElse(qtd1, FallbackQtd),
         idxVal |-> OrElse(val2, FallbackVal),
         idxData |-> OrElse(findSpecificIdx(headers, kwData), FallbackData)]

\* Whether one of the findSpecificIdx calls of parseExcelFile throws.
SalesColumnsThrow(headers) ==
    \/ \E kws \in {kwLoja, kwCategoria, kwSub, kwProduto, kwCodigo, kwCor, kwTamanho,
                   kwColecao, kwModelo, kwEstoque, kwQtd, kwLiquido, kwData} :
          FindSpecificIdxThrows(headers, kws)
    \/ /\ findSpecificIdx(headers, kwLiquido) = -1
       /\ \/ FindSpecificIdxThrows(headers, kwValorTotal)
          \/ /\ findSpecificIdx(headers, kwValorTotal) = -1
             /\ FindSpecificIdxThrows(headers, kwValor)

\* The callback of dataRows.map in parseExcelFile; index is 0-based.
SaleRecordOf(row, index, c, tz) ==
    [id |-> sRowDash \o NatToString(index),
     loja |-> TextField(row, c.idxLoja, sOutros),
     codigo |-> TextField(row, c.idxCodigo, <<>>),
     categoria |-> TextField(row, c.idxCat, sOutros),
     subCategoria |-> TextField(row, c.idxSub, sOutros),
     produto |-> TextField(row, c.idxProd, sProduto),
     cor |-> TextField(row, c.idxCor, sNA),
     tamanho |-> TextField(row, c.idxTam, sU),
     modelo |-> TextField(row, c.idxModelo, sNA),
     colecao |-> TextField(row, c.idxColecao, sNA),
     quantidade |-> OrZero(cleanNumber(getVal(row, c.idxQtd))),
     valorTotal |-> cleanNumber(getVal(row, c.idxVal)),
     estoque |-> OrZero(cleanNumber(getVal(row, c.idxEstoque))),
     data |-> formatDate(getVal(row, c.idxData), tz)]

\* cleanedData of parseExcelFile, for a matrix whose header does not throw
SalesCleanedData(rows_, tz) ==
    LET headerRowIndex == FindHeaderRowIndex(rows_, SalesKeywords)
        c == SalesColumns(HeadersOf(rows_, headerRowIndex))
        dataRows == DataRowsOf(rows_, headerRowIndex)
    IN  [i \in 1..Len(dataRows) |-> SaleRecordOf(dataRows[i], i - 1, c, tz)]

\* d => d.data !== '' && (d.valorTotal > 0 || d.quantidade > 0)
IsValidSaleBoth(d) ==
    d.data # <<>> /\ (NumGt(d.valorTotal, Num(0)) /\ NumGt(d.quantidade, Num(0)))
IsValidSale(d) ==
    d.data # <<>> /\ (NumGt(d.valorTotal, Num(0)) \/ NumGt(d.quantidade, Num(0)))

\* validData.sort((a, b) => a.data.localeCompare(b.data)), a stable sort
SortByData(s) ==
    LET before(j, i) ==
            \/ LocaleCompare(s[j].data, s[i].data) < 0
            \/ LocaleCompare(s[j].data, s[i].data) = 0 /\ j < i
        place(i) == Cardinality({j \in 1..Len(s) : before(j, i)}) + 1
    IN  [k \in 1..Len(s) |-> s[CHOOSE i \in 1..Len(s) : place(i) = k]]

\* What the promise of parseExcelFile settles to, for the row matrix of a
\* workbook that could be read.
parseExcelFile(rows_, tz) ==
    IF rows_ = <<>> THEN Resolved(<<>>)
    ELSE IF SalesColumnsThrow(HeadersOf(rows_, FindHeaderRowIndex(rows_, SalesKeywords)))
    THEN Rejected
    ELSE Resolved(SortByData(SelectSeq(SalesCleanedData(rows_, tz), IsValidSale)))

\* -------------------------------------------------------- parseCorteFile
CorteKeywords ==
    <<<<"p","r","o","d","u","t","o">>, <<"r","e","f","e","r","e^","n","c","i","a">>, <<"c","o","d","i","g","o">>, <<"c","o","r">>,
      <<"t","a","m","a","n","h","o">>, <<"q","t","d">>, <<"c","o","r","t","a","d","a">>>>
kwCorteQtd == 
    <<<<"q","t","d">>, <<"q","u","a","n","t","i","d","a","d","e">>, <<"t","o","t","a","l">>,
      <<"c","o","r","t","a","d","o">>, <<"c","o","r","t","e">>>>

FallbackCorteCodigo == 0
FallbackCorteCor == 2
FallbackCorteTam == 3
FallbackCorteQtd == 4

CorteColumns(headers) ==
    [idxCodigo |-> OrElse(findSpecificIdx(headers, kwCodigo), FallbackCorteCodigo),
     idxCor |-> OrElse(findSpecificIdx(headers, kwCor), FallbackCorteCor),
     idxTam |-> OrElse(findSpecificIdx(headers, kwTamanho), FallbackCorteTam),
     idxQtd |-> OrElse(findSpecificIdx(headers, kwCorteQtd), FallbackCorteQtd)]

CorteColumnsThrow(headers) ==
    \E kws \in {kwCodigo, kwCor, kwTamanho, kwCorteQtd} : FindSpecificIdxThrows(headers, kws)

\* The callback of dataRows.map in parseCorteFile.
CorteRecordOf(row, c) ==
    [codigo |-> TextField(row, c.idxCodigo, <<>>),
     cor |-> TextField(row, c.idxCor, sNA),
     tamanho |-> TextField(row, c.idxTam, sU),
     quantidade |-> OrZero(cleanNumber(getVal(row, c.idxQtd)))]

\* dataRows.map(...) of parseCorteFile, for a matrix whose header does not throw
CorteMapped(rows_) ==
    LET headerRowIndex == FindHeaderRowIndex(rows_, CorteKeywords)
        c == CorteColumns(HeadersOf(rows_, headerRowIndex))
        dataRows == DataRowsOf(rows_, headerRowIndex)
    IN  [i \in 1..Len(dataRows) |-> CorteRecordOf(dataRows[i], c)]

\* r => r.codigo !== '' && r.quantidade > 0
IsValidCorteAnyCode(r) == NumGt(r.quantidade, Num(0))
IsValidCorte(r) == r.codigo # <<>> /\ NumGt(r.quantidade, Num(0))

parseCorteFile(rows_) ==
    IF rows_ = <<>> THEN Resolved(<<>>)
    ELSE IF CorteColumnsThrow(HeadersOf(rows_, FindHeaderRowIndex(rows_, CorteKeywords)))
    THEN Rejected
    ELSE Resolved(SelectSeq(CorteMapped(rows_), IsValidCorte))

\* ======================================================================
\* The aggregation engine, called on record sequences as the ingestion
\* produces them (text fields trimmed, cut quantities positive).
\* ======================================================================
sDate == <<"2","0","2","4","-","0","3","-","1","5">>

SaleRec(id, loja, codigo, categoria, produto, cor, tamanho, qtd, val, est) ==
    [id |-> id, loja |-> loja, codigo |-> codigo, categoria |-> categoria,
     subCategoria |-> sOutros, produto |-> produto, cor |-> cor, tamanho |-> tamanho,
     modelo |-> sNA, colecao |-> sNA, quantidade |-> qtd, valorTotal |-> val,
     estoque |-> est, data |-> sDate]

SaleSamples ==
    { SaleRec(<<"r","o","w","-","0">>, <<"A">>, <<"X","1">>, <<"T","o","p">>,
              <<"C","a","m","i","s","a">>, <<"A","z","u","l">>, <<"M">>,
              Num(5), Num(100), Num(3)),
      SaleRec(<<"r","o","w","-","1">>, <<"B">>, <<"x","1">>, <<"T","o","p">>,
              <<"B","l","u","s","a">>, <<"A","Z","U","L">>, <<"m">>,
              Num(2), Num(40), Num(0)),
      SaleRec(<<"r","o","w","-","2">>, <<"B">>, <<"Y","2">>, <<"S","a","i","a">>,
              <<"S","a","i","a">>, sNA, sU,
              Num(0), Num(60), Num(4)),
      SaleRec(<<"r","o","w","-","3">>, <<"C">>, <<>>, <<"T","o","p">>,
              <<"P","r","o","d","u","t","o">>, <<"A","z","u","l">>, <<"M">>,
              Num(3), Num(100), Num(1)),
      SaleRec(<<"r","o","w","-","4">>, <<"A">>, <<"Y","2">>, <<"S","a","i","a">>,
              <<"S","a","i","a"," ","G">>, sNA, sU,
              Num(12), Rat(51, 2), Num(2)) }

CorteRec(codigo, cor, tamanho, qtd) ==
    [codigo |-> codigo, cor |-> cor, tamanho |-> tamanho, quantidade |-> qtd]

CorteSamples ==
    { CorteRec(<<"X","1">>, <<"A","z","u","l">>, <<"M">>, Num(10)),
      CorteRec(<<"x","1">>, <<"a","z","u","l">>, <<"M">>, Num(4)),
      CorteRec(<<"Z","9">>, <<"P","r","e","t","o">>, <<"G">>, Num(7)) }

GroupKeys == {"loja", "categoria", "tamanho", "quantidade"}
ValueKeys == {"valorTotal", "quantidade"}

InitAgg ==
    /\ pc = "input"
    /\ data = <<>>
    /\ corteData = <<>>
    /\ tableData = <<>>
    /\ aggregated = <<>>
    /\ aggArgs = [groupKey |-> "loja", valueKey |-> "valorTotal"]
    /\ rows = <<>>
    /\ timezone = 0
    /\ parsed = Pending
    /\ arg = Null
    /\ result = <<>>
    /\ metrics = <<>>
    /\ InitView

\* The caller hands over one more sale record.
AddSale(r) ==
    /\ pc = "input"
    /\ Len(data) < MaxSales
    /\ data' = Append(data, r)
    /\ UNCHANGED <<pc, corteData, tableData, aggregated, aggArgs, ingestVars, fnVars, viewVars>>

\* The caller hands over one more cut record.
AddCorte(r) ==
    /\ pc = "input"
    /\ Len(corteData) < MaxCortes
    /\ corteData' = Append(corteData, r)
    /\ UNCHANGED <<pc, data, tableData, aggregated, aggArgs, ingestVars, fnVars, viewVars>>

PrepareDataTable ==
    /\ pc = "input"
    /\ tableData' = prepareDataTable(data, corteData)
    /\ pc' = "prepareDataTable"
    /\ UNCHANGED <<data, corteData, aggregated, aggArgs, ingestVars, fnVars, viewVars>>

AggregateBy(groupKey, valueKey) ==
    /\ pc = "input"
    /\ aggregated' = aggregateBy(data, groupKey, valueKey)
    /\ aggArgs' = [groupKey |-> groupKey, valueKey |-> valueKey]
    /\ pc' = "aggregateBy"
    /\ UNCHANGED <<data, corteData, tableData, ingestVars, fnVars, viewVars>>

\* prepareDataTable on any sale and cut sequences.
NextTable ==
    \/ \E r \in SaleSamples : AddSale(r)
    \/ \E r \in CorteSamples : AddCorte(r)
    \/ PrepareDataTable

SpecTable == InitAgg /\ [][NextTable]_vars

\* aggregateBy on any sale sequence, grouping field and metric.
NextGroup ==
    \/ \E r \in SaleSamples : AddSale(r)
    \/ \E g \in GroupKeys, m \in ValueKeys : AggregateBy(g, m)

SpecGroup == InitAgg /\ [][NextGroup]_vars

\* ------------------------------------------------------------- claims
\* The composite key of the claims: each part lower-cased and trimmed,
\* joined by "|".
ClaimKey(r) ==
    Trim(ToLowerCase(r.codigo)) \o <<"|">> \o Trim(ToLowerCase(r.cor))
        \o <<"|">> \o Trim(ToLowerCase(r.tamanho))
SaleKeys == {ClaimKey(data[i]) : i \in 1..Len(data)}
CorteKeys == {ClaimKey(corteData[i]) : i \in 1..Len(corteData)}
SalesWithKey(k) == SelectSeq(data, LAMBDA r : ClaimKey(r) = k)
CortesWithKey(k) == SelectSeq(corteData, LAMBDA r : ClaimKey(r) = k)

RECURSIVE SumField(_, _)
SumField(s, f) ==
    IF s = <<>> THEN Num(0) ELSE NumAdd(Head(s)[f], SumField(Tail(s), f))

\* C1: prepareDataTable is key-complete: every distinct composite key
\* itemCode|color|size of either input is the key of exactly one output
\* row, and no output row has a key absent from both inputs.
C1_KeyComplete ==
    pc = "prepareDataTable" =>
        /\ \A k \in SaleKeys \cup CorteKeys :
              Cardinality({i \in 1..Len(tableData) : tableData[i].id = k}) = 1
        /\ \A i \in 1..Len(tableData) : tableData[i].id \in SaleKeys \cup CorteKeys

\* Records that differ in case share one row, next to a row from cuts only.
C1_Witness ==
    /\ pc = "prepareDataTable"
    /\ Len(data) = 3
    /\ Len(corteData) = 2
    /\ Len(tableData) = 2
    /\ \E i, j \in 1..Len(data) :
          data[i].codigo # data[j].codigo /\ ClaimKey(data[i]) = ClaimKey(data[j])
    /\ CorteKeys \ SaleKeys # {}

\* C2: in every row of prepareDataTable, percentualVendido is 0 when
\* qtdCortada is 0 and equals 100 * qtdVendida / qtdCortada otherwise.
C2_SellThrough ==
    pc = "prepareDataTable" =>
        \A i \in 1..Len(tableData) :
            LET row == tableData[i]
                pct == row.percentualVendido
            IN  IF row.qtdCortada = Num(0)
                THEN pct = Num(0)
                ELSE pct[1] * row.qtdCortada[1] * row.qtdVendida[2]
                        = 100 * row.qtdVendida[1] * row.qtdCortada[2] * pct[2]

\* One sale of 5 and one cut of 10 for the same key: one row with 50.
C2_Witness ==
    /\ pc = "prepareDataTable"
    /\ Len(data) = 1 /\ data[1].quantidade = Num(5)
    /\ Len(corteData) = 1 /\ corteData[1].quantidade = Num(10)
    /\ Len(tableData) = 1
    /\ tableData[1].percentualVendido = Num(50)

\* C3: each row's qtdVendida and faturado are the sums of quantidade and
\* valorTotal over the sale records with the row's key, its qtdCortada the
\* sum of quantidade over the cut records with that key; so the totals over
\* the rows are the totals over the inputs.
C3_Sums ==
    pc = "prepareDataTable" =>
        /\ \A i \in 1..Len(tableData) :
              LET row == tableData[i] IN
              /\ row.qtdVendida = SumField(SalesWithKey(row.id), "quantidade")
              /\ row.faturado = SumField(SalesWithKey(row.id), "valorTotal")
              /\ row.qtdCortada = SumField(CortesWithKey(row.id), "quantidade")
        /\ SumField(tableData, "qtdVendida") = SumField(data, "quantidade")
        /\ SumField(tableData, "faturado") = SumField(data, "valorTotal")
        /\ SumField(tableData, "qtdCortada") = SumField(corteData, "quantidade")

\* A row that sums two sale records and two cut records.
C3_Witness ==
    /\ pc = "prepareDataTable"
    /\ \E i \in 1..Len(tableData) :
          /\ Len(SalesWithKey(tableData[i].id)) = 2
          /\ Len(CortesWithKey(tableData[i].id)) = 2
          /\ tableData[i].qtdVendida = Num(7)
          /\ tableData[i].faturado = Num(140)
          /\ tableData[i].qtdCortada = Num(14)

\* C4: a key only in the cut input gives a row with qtdVendida 0, faturado 0
\* and produto "Sem Venda"; a key only in the sale input gives a row with
\* qtdCortada 0; a key in both keeps the product name of the (first) sale
\* record of that key.
C4_Origins ==
    pc = "prepareDataTable" =>
        \A i \in 1..Len(tableData) :
            LET row == tableData[i] IN
            /\ (row.id \in CorteKeys \ SaleKeys) =>
                  /\ row.qtdVendida = Num(0)
                  /\ row.faturado = Num(0)
                  /\ row.produto = SemVenda
            /\ (row.id \in SaleKeys \ CorteKeys) => row.qtdCortada = Num(0)
            /\ (row.id \in SaleKeys) => row.produto = Head(SalesWithKey(row.id)).produto

\* The three origins in one table.
C4_Witness ==
    /\ pc = "prepareDataTable"
    /\ \E i \in 1..Len(tableData) :
          tableData[i].id \in CorteKeys \ SaleKeys /\ tableData[i].produto = SemVenda
    /\ \E i \in 1..Len(tableData) :
          tableData[i].id \in SaleKeys \ CorteKeys /\ tableData[i].qtdCortada = Num(0)
    /\ \E i \in 1..Len(tableData) :
          /\ tableData[i].id \in SaleKeys \cap CorteKeys
          /\ tableData[i].produto # SemVenda
          /\ NumGt(tableData[i].qtdCortada, Num(0))

\* C5: aggregateBy partitions its input: for any grouping field and either
\* metric, the counts of the buckets sum to the input's quantity and their
\* estoque to the input's stock.
C5_Partition ==
    pc = "aggregateBy" =>
        /\ SumField(aggregated, "count") = SumField(data, "quantidade")
        /\ SumField(aggregated, "estoque") = SumField(data, "estoque")

\* Several buckets under the revenue metric, whose values do not sum to the
\* quantity.
C5_Witness ==
    /\ pc = "aggregateBy"
    /\ aggArgs.valueKey = "valorTotal"
    /\ Len(data) = 3
    /\ Len(aggregated) = 2
    /\ SumField(aggregated, "value") # SumField(aggregated, "count")
    /\ SumField(aggregated, "count") # Num(0)

GroupOf(r) == JSString(Field(r, aggArgs.groupKey))
Groups == {GroupOf(data[i]) : i \in 1..Len(data)}
FirstSeen(name) ==
    CHOOSE i \in 1..Len(data) :
        GroupOf(data[i]) = name /\ \A j \in 1..(i - 1) : GroupOf(data[j]) # name

\* C6: aggregateBy returns exactly one bucket per distinct value of the
\* grouping field, in descending order of value, buckets of equal value in
\* the order in which their group was first met in the input.
C6_Buckets ==
    pc = "aggregateBy" =>
        /\ {aggregated[i].name : i \in 1..Len(aggregated)} = Groups
        /\ Len(aggregated) = Cardinality(Groups)
        /\ \A i, j \in 1..Len(aggregated) :
              i < j =>
                /\ ~NumLt(aggregated[i].value, aggregated[j].value)
                /\ aggregated[i].value = aggregated[j].value =>
                      FirstSeen(aggregated[i].name) < FirstSeen(aggregated[j].name)

\* Two buckets of equal value, first met in the reverse of the order of
\* their names, above a bucket of smaller value.
C6_Witness ==
    /\ pc = "aggregateBy"
    /\ Len(aggregated) = 3
    /\ aggregated[1].value = aggregated[2].value
    /\ LocaleCompare(aggregated[1].name, aggregated[2].name) > 0
    /\ NumGt(aggregated[2].value, aggregated[3].value)

\* ======================================================================
\* The parsers, called on the row matrix of any workbook.
\* ======================================================================
\* A header, a header with an empty cell, and data rows: text, serial and
\* typed dates, numbers as numbers and as text, empty cells, a blank row,
\* and a row in the fixed layout the parser falls back to.
SalesRowSamples ==
    { <<StrVal(<<"D","a","t","a">>), StrVal(<<"L","o","j","a">>),
        StrVal(<<"C","o","d","i","g","o">>), StrVal(<<"P","r","o","d","u","t","o">>),
        StrVal(<<"C","o","r">>), StrVal(<<"T","a","m">>), StrVal(<<"Q","t","d">>),
        StrVal(<<"V","a","l","o","r">>), StrVal(<<"E","s","t","o","q","u","e">>)>>,
      <<StrVal(<<"D","a","t","a">>), Hole, StrVal(<<"L","o","j","a">>),
        StrVal(<<"Q","t","d">>), StrVal(<<"V","a","l","o","r">>)>>,
      <<StrVal(<<"1","5","/","0","3","/","2","0","2","4">>),
        StrVal(<<"L","o","j","a"," ","A">>), StrVal(<<"X","1">>),
        StrVal(<<"C","a","m","i","s","a">>), StrVal(<<"A","z","u","l">>), StrVal(<<"M">>),
        NumVal(Num(5)), StrVal(<<"R","$"," ","1",".","5","0","0",",","0","0">>),
        NumVal(Num(3))>>,
      <<NumVal(Num(40000)), StrVal(<<"L","o","j","a"," ","B">>), NumVal(Num(123)),
        StrVal(<<"B","l","u","s","a">>), Hole, Hole, StrVal(<<"-","2">>), NumVal(Num(100)),
        NumVal(Num(-4))>>,
      <<DateVal(2024, 1, 5), StrVal(<<"L","o","j","a"," ","A">>), StrVal(<<"Y","2">>),
        StrVal(<<"S","a","i","a">>), StrVal(<<"A","z","u","l">>), StrVal(<<"G">>),
        NumVal(Num(0)), NumVal(Num(0))>>,
      <<DateVal(1999, 12, 31), StrVal(<<"L","o","j","a"," ","A">>), StrVal(<<"Y","2">>),
        StrVal(<<"S","a","i","a">>), StrVal(<<"A","z","u","l">>), StrVal(<<"G">>),
        NumVal(Num(5)), NumVal(Num(100)), NumVal(Num(1))>>,
      <<>>,
      <<StrVal(<<"2","0","2","4","-","0","1","-","1","0">>),
        StrVal(<<"L","o","j","a"," ","C">>), StrVal(<<"Z","3">>),
        StrVal(<<"S","a","i","a">>), StrVal(<<"P","r","e","t","o">>), StrVal(<<"P">>),
        NumVal(Num(2)), StrVal(<<"-","5","0",",","0","0">>)>>,
      <<StrVal(<<"2","0","2","3","-","1","2","-","0","1">>),
        StrVal(<<"L","o","j","a"," ","A">>), StrVal(<<"X","1">>),
        StrVal(<<"C","a","m","i","s","a">>), StrVal(<<"A","z","u","l">>), StrVal(<<"M">>),
        StrVal(<<"V","e","r","2","4">>), Hole, StrVal(<<"M","o","d">>), Hole,
        NumVal(Num(5)), Hole, Hole, Hole, StrVal(<<"1","0","0",",","5","0">>)>> }

CorteRowSamples ==
    { <<StrVal(<<"R","e","f","e","r","e^","n","c","i","a">>),
        StrVal(<<"D","e","s","c","r","i","c,","a~","o">>), StrVal(<<"C","o","r">>),
        StrVal(<<"T","a","m","a","n","h","o">>),
        StrVal(<<"Q","t","d"," ","C","o","r","t","a","d","a">>)>>,
      <<StrVal(<<"C","o","d","i","g","o">>), Hole, StrVal(<<"C","o","r">>),
        StrVal(<<"T","a","m","a","n","h","o">>), StrVal(<<"Q","t","d">>)>>,
      <<StrVal(<<"X","1">>), StrVal(<<"C","a","m","i","s","a">>),
        StrVal(<<"A","z","u","l">>), StrVal(<<"M">>), NumVal(Num(10))>>,
      <<StrVal(<<" "," ">>), StrVal(<<"C","a","m","i","s","a">>),
        StrVal(<<"A","z","u","l">>), StrVal(<<"M">>), NumVal(Num(4))>>,
      <<StrVal(<<"Z","9">>), StrVal(<<"S","a","i","a">>), Hole, Hole, StrVal(<<"-","3">>)>>,
      <<NumVal(Num(0)), StrVal(<<"S","a","i","a">>), StrVal(<<"P","r","e","t","o">>),
        StrVal(<<"G">>), NumVal(Num(7))>>,
      <<NumVal(Num(123)), StrVal(<<"B","l","u","s","a">>), StrVal(<<"A","z","u","l">>),
        StrVal(<<"P">>), StrVal(<<"1",".","5","0","0">>)>>,
      <<>> }

\* America/Sao_Paulo and UTC
TimeZones == {-180, 0}

InitIngest ==
    /\ pc = "input"
    /\ rows = <<>>
    /\ parsed = Pending
    /\ data = <<>>
    /\ corteData = <<>>
    /\ tableData = <<>>
    /\ aggregated = <<>>
    /\ aggArgs = [groupKey |-> "loja", valueKey |-> "valorTotal"]
    /\ arg = Null
    /\ result = <<>>
    /\ metrics = <<>>
    /\ InitView

InitSales == InitIngest /\ timezone \in TimeZones
InitCortes == InitIngest /\ timezone = 0

\* The sheet of the workbook holds one more row.
AddRow(r) ==
    /\ pc = "input"
    /\ Len(rows) < MaxRows
    /\ rows' = Append(rows, r)
    /\ UNCHANGED <<pc, timezone, parsed, aggVars, fnVars, viewVars>>

\* The file cannot be read, or XLSX.read throws on it: reader.onerror and
\* the catch both reject.
ReadFails ==
    /\ pc = "input"
    /\ rows = <<>>
    /\ parsed' = Rejected
    /\ pc' = "readFailed"
    /\ UNCHANGED <<rows, timezone, aggVars, fnVars, viewVars>>

ParseExcelFile ==
    /\ pc = "input"
    /\ parsed' = parseExcelFile(rows, timezone)
    /\ pc' = "parseExcelFile"
    /\ UNCHANGED <<rows, timezone, aggVars, fnVars, viewVars>>

ParseCorteFile ==
    /\ pc = "input"
    /\ parsed' = parseCorteFile(rows)
    /\ pc' = "parseCorteFile"
    /\ UNCHANGED <<rows, timezone, aggVars, fnVars, viewVars>>

NextSales ==
    \/ \E r \in SalesRowSamples : AddRow(r)
    \/ ReadFails
    \/ ParseExcelFile

SpecSales == InitSales /\ [][NextSales]_vars

NextCortes ==
    \/ \E r \in CorteRowSamples : AddRow(r)
    \/ ReadFails
    \/ ParseCorteFile

SpecCortes == InitCortes /\ [][NextCortes]_vars

\* ------------------------------------------------------------- claims
SalesDone == pc = "parseExcelFile" /\ parsed.status = "resolved"
CortesDone == pc = "parseCorteFile" /\ parsed.status = "resolved"

\* The validity rule of a sale record, as the claim states it.
SaleRetained(d) ==
    d.data # <<>> /\ (d.valorTotal[1] > 0 \/ d.quantidade[1] > 0)

\* C7: parseExcelFile retains a data row exactly when its decoded date is
\* not empty and (valorTotal > 0 or quantidade > 0): every returned record
\* satisfies this, is the record of a data row, and the record of every data
\* row that satisfies it is returned.
C7_SalesFilter ==
    SalesDone =>
        LET cleaned == SalesCleanedData(rows, timezone)
            kept == {j \in 1..Len(cleaned) : SaleRetained(cleaned[j])}
        IN  /\ \A i \in 1..Len(parsed.value) : SaleRetained(parsed.value[i])
            /\ {parsed.value[i] : i \in 1..Len(parsed.value)} = {cleaned[j] : j \in kept}
            /\ Len(parsed.value) = Cardinality(kept)

\* A row is retained for its value alone, its quantity not being positive,
\* next to a row with a quantity that is dropped for its date.
C7_Witness ==
    /\ SalesDone
    /\ Len(parsed.value) = 1
    /\ ~NumGt(parsed.value[1].quantidade, Num(0))
    /\ NumGt(parsed.value[1].valorTotal, Num(0))
    /\ \E j \in 1..Len(SalesCleanedData(rows, timezone)) :
          /\ SalesCleanedData(rows, timezone)[j].data = <<>>
          /\ SalesCleanedData(rows, timezone)[j].quantidade = Num(5)

\* C8: every record parseExcelFile returns has quantidade >= 0 and
\* estoque >= 0, whatever the cells of the quantity and stock columns hold.
C8_NonNegative ==
    SalesDone =>
        \A i \in 1..Len(parsed.value) :
            parsed.value[i].quantidade[1] >= 0 /\ parsed.value[i].estoque[1] >= 0

\* The validity rule of a cut record, as the claim states it.
CorteRetained(r) == r.codigo # <<>> /\ r.quantidade[1] > 0

\* C9: parseCorteFile retains a data row exactly when its code is not empty
\* after trimming and its decoded quantity is > 0, and the returned records
\* are in the order of their rows.
C9_CortesFilter ==
    CortesDone =>
        LET mapped == CorteMapped(rows)
            kept == {j \in 1..Len(mapped) : CorteRetained(mapped[j])}
            nth(i) == CHOOSE j \in kept : Cardinality({k \in kept : k < j}) = i - 1
        IN  /\ Len(parsed.value) = Cardinality(kept)
            /\ \A i \in 1..Len(parsed.value) : parsed.value[i] = mapped[nth(i)]

\* Two rows are retained in their order, the row between them dropped.
C9_Witness ==
    /\ CortesDone
    /\ Len(rows) = 3
    /\ Len(parsed.value) = 2
    /\ parsed.value[1].quantidade = Num(1500)
    /\ parsed.value[2].quantidade = Num(10)
    /\ ~CorteRetained(CorteMapped(rows)[2])

\* C10: for the row matrix of a workbook that could be read, empty cells in
\* the header or the data rows included, the parser completes with a record
\* sequence and never rejects.
C10_NeverRejects ==
    pc \in {"parseExcelFile", "parseCorteFile"} => parsed.status = "resolved"

\* ======================================================================
\* parseExcelFile on sheets without a header row, whose first column holds
\* dates in every representation a cell can have.
\* ======================================================================
\* Rows in the layout the parser falls back to (date in column A, quantity
\* in column K, value in column O): dates as text, as serial numbers, as
\* typed dates, and a large number in the date column.
DateRowSamples ==
    { <<StrVal(<<"1","5","/","0","3","/","2","0","2","4">>), Hole, Hole, Hole, Hole, Hole,
        Hole, Hole, Hole, Hole, NumVal(Num(1)), Hole, Hole, Hole, NumVal(Num(10))>>,
      <<NumVal(Num(40000)), Hole, Hole, Hole, Hole, Hole, Hole, Hole, Hole, Hole,
        NumVal(Num(2)), Hole, Hole, Hole, NumVal(Num(10))>>,
      <<NumVal(Num(5000000)), Hole, Hole, Hole, Hole, Hole, Hole, Hole, Hole, Hole,
        NumVal(Num(3)), Hole, Hole, Hole, NumVal(Num(10))>>,
      <<DateVal(2024, 1, 5), Hole, Hole, Hole, Hole, Hole, Hole, Hole, Hole, Hole,
        NumVal(Num(4)), Hole, Hole, Hole, NumVal(Num(10))>>,
      <<StrVal(<<"2","0","2","4","-","0","1","-","1","0">>), Hole, Hole, Hole, Hole, Hole,
        Hole, Hole, Hole, Hole, NumVal(Num(5)), Hole, Hole, Hole, NumVal(Num(10))>>,
      <<StrVal(<<"1","0","/","0","1","/","2","0","2","4">>), Hole, Hole, Hole, Hole, Hole,
        Hole, Hole, Hole, Hole, NumVal(Num(6)), Hole, Hole, Hole, NumVal(Num(10))>>,
      <<StrVal(<<"3","1","/","1","2","/","2","0","2","5">>), Hole, Hole, Hole, Hole, Hole,
        Hole, Hole, Hole, Hole, NumVal(Num(7)), Hole, Hole, Hole, NumVal(Num(10))>> }

NextSort ==
    \/ \E r \in DateRowSamples : AddRow(r)
    \/ ReadFails
    \/ ParseExcelFile

SpecSort == InitSales /\ [][NextSort]_vars

\* The calendar date <<year, month, day>> that a date string
\* [+]Y...Y-MM-DD denotes.
ChronoKey(s) ==
    LET t == IF s # <<>> /\ Head(s) = "+" THEN Tail(s) ELSE s
        n == DigitRun(t, 1)
    IN  <<DigitsValue(SubSeq(t, 1, n)), DigitsValue(SubSeq(t, n + 2, n + 3)),
          DigitsValue(SubSeq(t, n + 5, n + 6))>>

\* C11: the records parseExcelFile returns are in ascending order of their
\* data strings, and for every pair of returned records this order is the
\* chronological order of the dates the strings denote.
C11_SortedChronological ==
    SalesDone =>
        \A i, j \in 1..Len(parsed.value) :
            i < j =>
                /\ LocaleCompare(parsed.value[i].data, parsed.value[j].data) <= 0
                /\ LexCmp(ChronoKey(parsed.value[i].data),
                          ChronoKey(parsed.value[j].data)) <= 0

\* ======================================================================
\* formatDate, called on one cell value, and then on its own result.
\* ======================================================================
DayTexts == {<<"1">>, <<"0","5">>, <<"3","1">>, <<"4","5">>}
MonthTexts == {<<"2">>, <<"0","2">>, <<"1","2">>, <<"1","3">>}
YearTexts ==
    {<<"2","4">>, <<"9","9">>, <<"1","9","9">>, <<"1","9","9","9">>, <<"2","0","0","0">>, <<"2","0","2","4">>, <<"2","0","2","4","5">>}
MonthNameTexts == {<<"j","a","n">>, <<"F","e","v">>, <<"D","E","Z">>, <<"a","b","c">>}
MonthSeparators == {" ", "-", "/", "."}

\* dd/mm/yyyy in every mix of the parts above
BrTexts ==
    {d \o <<"/">> \o m \o <<"/">> \o y : d \in DayTexts, m \in MonthTexts, y \in YearTexts}
\* yyyy-mm-dd, with months and days that exist and that do not
IsoTexts ==
    {y \o <<"-">> \o m \o <<"-">> \o d :
        y \in {<<"1","9","9","9">>, <<"2","0","2","4">>},
        m \in {<<"0","2">>, <<"1","3">>},
        d \in {<<"2","9">>, <<"3","1">>, <<"4","5">>}}
\* mmm yy, mmm-yyyy, ...
MonthYearTexts ==
    {m \o <<s>> \o y : m \in MonthNameTexts, s \in MonthSeparators,
                       y \in {<<"2","4">>, <<"1","9","9","9">>, <<"2","0","2","4">>}}
OtherTexts ==
    { <<>>, <<"a","b","c">>,
      <<" ","1","5","/","0","3","/","2","0","2","4"," ">>,
      <<"2","0","2","4","-","1","-","5">>,
      <<"1","5","/","0","3","/","2","0","2","4"," ","1","0",":","3","0">>,
      <<"2","0","2","4","-","0","1","-","1","0","T","0","0",":","0","0">>,
      <<"3","1",".","1","2",".","2","0","2","4">> }

\* Serial numbers: either side of 2000-01-01, with a time of day, the last
\* day of year 9999 and the day after, a large number, and a number no
\* Date can hold.
SerialInputs ==
    { Num(-1), Num(0), Num(36525), Rat(3652599, 100), Num(36526), Rat(73053, 2),
      Num(40000), Rat(4000075, 100), Num(2958465), Num(2958466), Num(5000000),
      Num(100025570) }

\* Typed dates, by their local calendar fields.
DateInputs ==
    {DateVal(y, md[1], md[2]) : y \in {1999, 2000, 2024}, md \in {<<1, 5>>, <<10, 15>>, <<12, 31>>}}

FormatDateInputs ==
    {StrVal(s) : s \in BrTexts \cup IsoTexts \cup MonthYearTexts \cup OtherTexts}
        \cup {NumVal(n) : n \in SerialInputs} \cup DateInputs
        \cup {Null, Undefined, BoolVal(TRUE)}

InitDate ==
    /\ pc = "input"
    /\ arg \in FormatDateInputs
    /\ timezone \in TimeZones
    /\ result = <<>>
    /\ metrics = <<>>
    /\ InitView
    /\ rows = <<>>
    /\ parsed = Pending
    /\ data = <<>>
    /\ corteData = <<>>
    /\ tableData = <<>>
    /\ aggregated = <<>>
    /\ aggArgs = [groupKey |-> "loja", valueKey |-> "valorTotal"]

\* formatDate(arg)
FormatDate ==
    /\ pc = "input"
    /\ result' = formatDate(arg, timezone)
    /\ pc' = "formatDate"
    /\ UNCHANGED <<arg, metrics, aggVars, ingestVars, viewVars>>

\* formatDate(formatDate(x)): the non-empty result is decoded again.
FormatDateAgain ==
    /\ pc = "formatDate"
    /\ result # <<>>
    /\ arg' = StrVal(result)
    /\ result' = formatDate(StrVal(result), timezone)
    /\ pc' = "formatDateAgain"
    /\ UNCHANGED <<metrics, aggVars, ingestVars, viewVars>>

NextDate == FormatDate \/ FormatDateAgain

SpecDate == InitDate /\ [][NextDate]_vars

\* The year a two-digit year stands for.
ClaimYear(digits) ==
    IF DigitsValue(digits) < 100 THEN 2000 + DigitsValue(digits) ELSE DigitsValue(digits)

\* Whether a year can be read from the value: a typed date, a serial number
\* a Date can hold, or text in one of the three recognised formats.
HasYear(val) ==
    \/ val.t = "date"
    \/ val.t = "number" /\ val.v # NaN /\ Abs(val.v[1] \div val.v[2]) < MaxDateDays
    \/ /\ val.t = "string"
       /\ \/ BrDateMatch(Trim(val.v)) # <<>>
          \/ /\ MonthYearMatch(Trim(val.v)) # <<>>
             /\ IndexOf(ptMonths, MonthYearMatch(Trim(val.v))[1]) # 0
          \/ IsoMatch(Trim(val.v))

\* The year the value resolves to: the calendar year of a typed date, the
\* year of the day a serial number counts to, the year field of a text.
ResolvedYear(val) ==
    IF val.t = "date" THEN val.v[1]
    ELSE IF val.t = "number"
    THEN CivilFromDays((val.v[1] - EpochSerial * val.v[2]) \div val.v[2])[1]
    ELSE IF BrDateMatch(Trim(val.v)) # <<>> THEN ClaimYear(BrDateMatch(Trim(val.v))[3])
    ELSE IF MonthYearMatch(Trim(val.v)) # <<>> THEN ClaimYear(MonthYearMatch(Trim(val.v))[2])
    ELSE DigitsValue(SubSeq(Trim(val.v), 1, 4))

\* C12: formatDate returns the empty string for every input whose resolved
\* year is below 2000, be it a typed date, a serial number or text in one of
\* the recognised formats.
C12_Before2000Empty ==
    (pc = "formatDate" /\ HasYear(arg) /\ ResolvedYear(arg) < 2000) => result = <<>>

\* A text date with a four-digit year below 2000 was decoded.
C12_Witness ==
    /\ pc = "formatDate"
    /\ arg.t = "string"
    /\ HasYear(arg)
    /\ ResolvedYear(arg) = 1999
    /\ result = <<>>

\* C13: formatDate is idempotent on its own output: for every input whose
\* result is not empty, decoding that result gives the same result.
C13_Idempotent ==
    pc = "formatDateAgain" => result = arg.v

\* The days of month m of year y.
DaysInMonth(y, m) ==
    IF m = 2 THEN (IF y % 4 = 0 /\ (y % 100 # 0 \/ y % 400 = 0) THEN 29 ELSE 28)
    ELSE IF m \in {4, 6, 9, 11} THEN 30 ELSE 31

\* C14: every non-empty result of formatDate is a string YYYY-MM-DD that
\* denotes a valid calendar date of year 2000 or later (month 01-12, day
\* valid for that month); text from which no valid calendar date can be
\* recovered decodes to the empty string.
C14_ValidCalendarDate ==
    (pc = "formatDate" /\ result # <<>>) =>
        /\ IsoMatch(result)
        /\ DigitsValue(SubSeq(result, 1, 4)) >= 2000
        /\ DigitsValue(SubSeq(result, 6, 7)) \in 1..12
        /\ DigitsValue(SubSeq(result, 9, 10)) \in
              1..DaysInMonth(DigitsValue(SubSeq(result, 1, 4)), DigitsValue(SubSeq(result, 6, 7)))

\* ======================================================================
\* cleanNumber, called on one cell value.
\* ======================================================================
\* The shapes of a text date as the claim names them.  ClaimDMY is the set
\* of the lengths <<day, month, year>> under which text v starts with
\* day/month/year, the year being as long as it can be up to four digits.
ClaimAllDigits(v, from, to) == \A i \in from..to : i <= Len(v) /\ v[i] \in DigitSet
ClaimDMY(v) ==
    {n \in (1..2) \X (1..2) \X (2..4) :
        /\ ClaimAllDigits(v, 1, n[1])
        /\ Len(v) > n[1] /\ v[n[1] + 1] = "/"
        /\ ClaimAllDigits(v, n[1] + 2, n[1] + n[2] + 1)
        /\ Len(v) > n[1] + n[2] + 1 /\ v[n[1] + n[2] + 2] = "/"
        /\ ClaimAllDigits(v, n[1] + n[2] + 3, n[1] + n[2] + n[3] + 2)
        /\ (n[3] < 4 => ~ClaimAllDigits(v, n[1] + n[2] + 3, n[1] + n[2] + n[3] + 3))}
ClaimIsMonthYear(v) ==
    /\ Len(v) \in 6..8
    /\ IndexOf(ptMonths, ToLowerCase(SubSeq(v, 1, 3))) # 0
    /\ v[4] \in Whitespace \cup {"-", "/"}
    /\ ClaimAllDigits(v, 5, Len(v))
ClaimIsIso(v) ==
    /\ Len(v) = 10
    /\ ClaimAllDigits(v, 1, 4) /\ v[5] = "-" /\ ClaimAllDigits(v, 6, 7) /\ v[8] = "-"
    /\ ClaimAllDigits(v, 9, 10)
ClaimRaised(y) == IF y < 100 THEN y + 2000 ELSE y

\* What the claim gives for trimmed text v; rejects tells whether a day/month/
\* year or month and year text with a year below 2000 gives ''.
ClaimTextDate(v, rejects) ==
    IF ClaimDMY(v) # {} THEN
        LET n == CHOOSE n \in ClaimDMY(v) : TRUE
            d == DigitsValue(SubSeq(v, 1, n[1]))
            m == DigitsValue(SubSeq(v, n[1] + 2, n[1] + n[2] + 1))
            y == ClaimRaised(DigitsValue(SubSeq(v, n[1] + n[2] + 3, n[1] + n[2] + n[3] + 2)))
        IN  IF rejects /\ y < 2000 THEN <<>>
            ELSE NatToString(y) \o <<"-">> \o PadNat(m, 2) \o <<"-">> \o PadNat(d, 2)
    ELSE IF ClaimIsMonthYear(v) THEN
        LET y == ClaimRaised(DigitsValue(SubSeq(v, 5, Len(v))))
        IN  IF rejects /\ y < 2000 THEN <<>>
            ELSE NatToString(y) \o <<"-">>
                    \o PadNat(IndexOf(ptMonths, ToLowerCase(SubSeq(v, 1, 3))), 2) \o <<"-", "0", "1">>
    ELSE IF ClaimIsIso(v) /\ DigitsValue(SubSeq(v, 1, 4)) >= 2000 THEN v
    ELSE <<>>

\* C27 as stated: text is tried as day/month/year, then as month
\* abbreviation and year, then as ISO; day/month/year text gives
\* YEAR-MM-DD, zero-padded, a year below 100 raised by 2000; a month
\* abbreviation with a year gives the first day of the month; ISO text of a
\* year from 2000 on is returned as it is; other text gives ''.
C27_AsStated ==
    (pc = "formatDate" /\ arg.t = "string") => result = ClaimTextDate(Trim(arg.v), FALSE)

\* C27: the same, where day/month/year text and month and year text whose
\* year, after the raise, is below 2000 give ''.
C27_TextDate ==
    (pc = "formatDate" /\ arg.t = "string") => result = ClaimTextDate(Trim(arg.v), TRUE)

\* "1/2/24" was decoded to 2024-02-01.
C27_Witness ==
    /\ pc = "formatDate"
    /\ arg = StrVal(<<"1","/","2","/","2","4">>)
    /\ result = <<"2","0","2","4","-","0","2","-","0","1">>

\* Numbers written with groups of three digits and two decimals: the parts
\* are kept as written with '.' for the group mark and ',' for the decimal
\* mark, the Brazilian way.
GroupHeads == {<<"0">>, <<"1">>, <<"1","2">>, <<"1","2","3">>}
GroupTails == {<<>>, <<".","2","3","4">>, <<".","0","0","0">>}
LongHeads == {<<"1">>, <<"2","1">>}
LongTails ==
    {<<".","2","3","4",".","5","6","7">>, <<".","0","0","0",".","0","0","1">>}
DecimalTails == {<<",","5","6">>, <<",","0","0">>, <<",","0","5">>}

BrNumberTexts ==
    {h \o g \o d : h \in GroupHeads, g \in GroupTails, d \in DecimalTails}
        \cup {h \o g \o d : h \in LongHeads, g \in LongTails, d \in DecimalTails}

\* s with every '.' made ',' and every ',' made '.'
SwapSeparators(s) ==
    [i \in 1..Len(s) |-> IF s[i] = "." THEN "," ELSE IF s[i] = "," THEN "." ELSE s[i]]

\* The same numbers the US way.
UsNumberTexts == {SwapSeparators(s) : s \in BrNumberTexts}

OtherNumberTexts ==
    { <<>>, <<"R","$"," ","1",".","5","0","0",",","0","0">>,
      <<"1",",","5","0","0",".","0","0">>,
      <<"a","b","c">>,
      <<" ","-","1",".","2","3","4",",","5","6"," ">>,
      <<"1",",","2",",","3">>,
      <<"1",".","5","0","0">>,
      <<"1",".","5">>,
      <<"1",".","2","3","4","5">>,
      <<"1",".","2","3","4",".","5","6","7">>,
      <<"1","2",",","5">>,
      <<"-">>,
      <<".">>,
      <<"-","-","5">>,
      <<"5","-","3">>,
      <<"1","e","5">>,
      <<"1","2"," ","u","n">>,
      <<"-","7">>,
      <<".","5">>,
      <<"5",".">>,
      <<"1","0","0",",","5","0">>,
      <<"1",",","2","3","4",",","5","6","7">>,
      <<",","5">>,
      <<"-","3",",","2","5">>,
      <<"R","$"," ","7",",","5">>,
      <<"1","0",".","5","0","0">>,
      <<"1","0",".","5">>,
      <<"-","2",".","0","0","0">>,
      <<"1",".","5","-","3">> }

CleanNumberInputs ==
    {StrVal(s) : s \in BrNumberTexts \cup UsNumberTexts \cup OtherNumberTexts}
        \cup {NumVal(n) : n \in {Num(0), Num(-3), Rat(5, 2), Num(1500)}}
        \cup {Null, Undefined, BoolVal(TRUE), BoolVal(FALSE), DateVal(2024, 1, 5)}

InitNumber ==
    /\ pc = "input"
    /\ arg \in CleanNumberInputs
    /\ timezone = 0
    /\ result = <<>>
    /\ metrics = <<>>
    /\ InitView
    /\ rows = <<>>
    /\ parsed = Pending
    /\ data = <<>>
    /\ corteData = <<>>
    /\ tableData = <<>>
    /\ aggregated = <<>>
    /\ aggArgs = [groupKey |-> "loja", valueKey |-> "valorTotal"]

\* cleanNumber(arg)
CleanNumber ==
    /\ pc = "input"
    /\ result' = cleanNumber(arg)
    /\ pc' = "cleanNumber"
    /\ UNCHANGED <<arg, metrics, aggVars, ingestVars, viewVars>>

NextNumber == CleanNumber

SpecNumber == InitNumber /\ [][NextNumber]_vars

\* s matches /^\d{1,3}(G\d{3})*D\d{2}$/ for the group mark G and the
\* decimal mark D.
IsGroupedNumber(s, G, D) ==
    /\ Len(s) >= 4
    /\ s[Len(s) - 2] = D
    /\ s[Len(s) - 1] \in DigitSet /\ s[Len(s)] \in DigitSet
    /\ DigitRun(s, 1) \in 1..3
    /\ (Len(s) - 3 - DigitRun(s, 1)) % 4 = 0
    /\ \A i \in (DigitRun(s, 1) + 1)..(Len(s) - 3) :
          IF (i - DigitRun(s, 1) - 1) % 4 = 0 THEN s[i] = G ELSE s[i] \in DigitSet

\* The value of a US number with two decimals: its digits, as hundredths.
UsValue(s) == Rat(DigitsValue(SelectSeq(s, LAMBDA c : c \in DigitSet)), 100)

\* C15: for every string in Brazilian number format, cleanNumber returns
\* the value of the string with '.' and ',' swapped read as a US number;
\* "1.234,56" gives 1234.56.
C15_BrazilianFormat ==
    (pc = "cleanNumber" /\ arg.t = "string" /\ IsGroupedNumber(arg.v, ".", ",")) =>
        result = UsValue(SwapSeparators(arg.v))

\* "1.234,56" was decoded to 1234.56.
C15_Witness ==
    /\ pc = "cleanNumber"
    /\ arg = StrVal(<<"1",".","2","3","4",",","5","6">>)
    /\ result = Rat(123456, 100)

\* C16: for every string in US number format, cleanNumber removes the
\* commas and returns the value of the decimal string that is left;
\* "1,234.56" gives 1234.56.
C16_USFormat ==
    (pc = "cleanNumber" /\ arg.t = "string" /\ IsGroupedNumber(arg.v, ",", ".")) =>
        result = UsValue(arg.v)

\* "1,234.56" was decoded to 1234.56.
C16_Witness ==
    /\ pc = "cleanNumber"
    /\ arg = StrVal(<<"1",",","2","3","4",".","5","6">>)
    /\ result = Rat(123456, 100)

\* The text with everything but digits, ',', '.' and '-' taken out.
Stripped(s) == SelectSeq(s, LAMBDA c : c \in DigitSet \cup {",", ".", "-"})

\* C17: cleanNumber returns a number for every input; a number is returned
\* as it is; text gives what its digits, commas, periods and minus signs
\* alone give, so "R$ 1.500,00" and "1,500.00" give 1500; text that does not
\* parse ("abc") and a value of any other type give 0.
C17_Total ==
    pc = "cleanNumber" =>
        /\ result # NaN /\ Len(result) = 2 /\ result[2] > 0
        /\ arg.t = "number" => result = arg.v
        /\ arg.t = "string" => result = cleanNumber(StrVal(Stripped(arg.v)))
        /\ (arg.t = "string" /\ \A i \in 1..Len(arg.v) : arg.v[i] \notin DigitSet) =>
              result = Num(0)
        /\ arg.t \notin {"number", "string"} => result = Num(0)
        /\ arg = StrVal(<<"R","$"," ","1",".","5","0","0",",","0","0">>) => result = Num(1500)
        /\ arg = StrVal(<<"1",",","5","0","0",".","0","0">>) => result = Num(1500)
        /\ arg = StrVal(<<"a","b","c">>) => result = Num(0)

\* Text that holds nothing of a number was decoded to 0.
C17_Witness ==
    /\ pc = "cleanNumber"
    /\ arg = StrVal(<<"a","b","c">>)
    /\ result = Num(0)

\* The value of the decimal number that text c starts with when mark is its
\* decimal mark: a minus sign, digits, the mark, digits; 0 when no digit is
\* there.
ClaimDecimal(c, mark) ==
    LET neg == c # <<>> /\ Head(c) = "-"
        start == IF neg THEN 2 ELSE 1
        nInt == DigitRun(c, start)
        marked == start + nInt <= Len(c) /\ c[start + nInt] = mark
        nFrac == IF marked THEN DigitRun(c, start + nInt + 1) ELSE 0
        whole == DigitsValue(SubSeq(c, start, start + nInt - 1))
        frac == DigitsValue(SubSeq(c, start + nInt + 1, start + nInt + nFrac))
        mag == Rat(whole * Pow10(nFrac) + frac, Pow10(nFrac))
    IN  IF neg THEN Rat(-mag[1], mag[2]) ELSE mag

Has(s, c) == \E i \in 1..Len(s) : s[i] = c

\* C24: for text that holds a ',' and no '.', the comma is the decimal mark:
\* cleanNumber returns the value of the text read with ',' for '.', also when
\* the text holds more than one comma; "100,50" gives 100.50.
C24_CommaDecimal ==
    (pc = "cleanNumber" /\ arg.t = "string" /\ Has(arg.v, ",") /\ ~Has(arg.v, ".")) =>
        result = ClaimDecimal(Stripped(arg.v), ",")

\* "100,50" was decoded to 100.5.
C24_Witness ==
    /\ pc = "cleanNumber"
    /\ arg = StrVal(<<"1","0","0",",","5","0">>)
    /\ result = Rat(201, 2)

\* The number of characters of c after its last '.'.
ClaimLastGroup(c) ==
    Len(c) - (CHOOSE i \in 1..Len(c) : c[i] = "." /\ \A j \in (i + 1)..Len(c) : c[j] # ".")

\* C25: for text that holds a '.' and no ',', cleanNumber takes every '.'
\* out when exactly three characters follow the last '.' ("1.500" gives 1500,
\* "10.500" gives 10500) and reads '.' as the decimal mark otherwise
\* ("10.5" gives 10.5).
C25_PeriodOnly ==
    (pc = "cleanNumber" /\ arg.t = "string" /\ Has(arg.v, ".") /\ ~Has(arg.v, ",")) =>
        IF ClaimLastGroup(Stripped(arg.v)) = 3
        THEN result = ClaimDecimal(SelectSeq(Stripped(arg.v), LAMBDA c : c # "."), ".")
        ELSE result = ClaimDecimal(Stripped(arg.v), ".")

\* "10.500" was decoded to 10500.
C25_Witness ==
    /\ pc = "cleanNumber"
    /\ arg = StrVal(<<"1","0",".","5","0","0">>)
    /\ result = Num(10500)

\* ======================================================================
\* calculateMetrics(data, corteData)
\* ======================================================================
\* s.reduce((acc, curr) => acc + curr[f], 0)
RECURSIVE ReduceSum(_, _)
ReduceSum(s, f) ==
    IF s = <<>> THEN Num(0)
    ELSE NumAdd(ReduceSum(SubSeq(s, 1, Len(s) - 1), f), s[Len(s)][f])

\* a mutation of MetricsSellThrough: sold over stock
MetricsSellThroughOverStock(totalItems, totalStock) ==
    IF NumGt(totalStock, Num(0))
    THEN NumMul(NumDiv(totalItems, totalStock), Num(100))
    ELSE Num(0)

\* totalManufactured > 0 ? (totalItems / totalManufactured) * 100 : 0
MetricsSellThrough(totalItems, totalStock) ==
    IF NumGt(NumAdd(totalItems, totalStock), Num(0))
    THEN NumMul(NumDiv(totalItems, NumAdd(totalItems, totalStock)), Num(100))
    ELSE Num(0)

\* data.forEach(item => map.set(item.loja, (map.get(item.loja) || 0) + item.valorTotal))
RECURSIVE RevenueByStore(_)
RevenueByStore(s) ==
    IF s = <<>> THEN <<>>
    ELSE LET map == RevenueByStore(SubSeq(s, 1, Len(s) - 1))
             item == s[Len(s)]
         IN  MapSet(map, item.loja, NumAdd(MapGetOrZero(map, item.loja), item.valorTotal))

\* The body of map.forEach on [topStore, maxRev]:
\* if (val > maxRev) { maxRev = val; topStore = key; }
TopStoreStep(top, entry) ==
    IF NumGt(entry.v, top.maxRev) THEN [topStore |-> entry.k, maxRev |-> entry.v] ELSE top

\* map.forEach over the entries in insertion order, from 'N/A' and 0
RECURSIVE TopStoreForEach(_)
TopStoreForEach(map) ==
    IF map = <<>> THEN [topStore |-> sNA, maxRev |-> Num(0)]
    ELSE TopStoreStep(TopStoreForEach(SubSeq(map, 1, Len(map) - 1)), map[Len(map)])

\* a mutation of calculateMetrics: the sell-through rate is taken over the
\* total cut
calculateMetricsOverCut(sales, cortes) ==
    LET totalRevenue == ReduceSum(sales, "valorTotal")
        totalItems == ReduceSum(sales, "quantidade")
        totalStock == ReduceSum(sales, "estoque")
        totalCut == ReduceSum(cortes, "quantidade")
    IN  [totalRevenue |-> totalRevenue,
         totalItems |-> totalItems,
         averageTicket |-> IF Len(sales) > 0 THEN NumDiv(totalRevenue, Num(Len(sales)))
                           ELSE Num(0),
         topStore |-> TopStoreForEach(RevenueByStore(sales)).topStore,
         totalStock |-> totalStock,
         totalCut |-> totalCut,
         sellThroughRate |-> MetricsSellThrough(totalItems, totalCut)]

calculateMetrics(sales, cortes) ==
    LET totalRevenue == ReduceSum(sales, "valorTotal")
        totalItems == ReduceSum(sales, "quantidade")
        totalStock == ReduceSum(sales, "estoque")
        totalCut == ReduceSum(cortes, "quantidade")
    IN  [totalRevenue |-> totalRevenue,
         totalItems |-> totalItems,
         averageTicket |-> IF Len(sales) > 0 THEN NumDiv(totalRevenue, Num(Len(sales)))
                           ELSE Num(0),
         topStore |-> TopStoreForEach(RevenueByStore(sales)).topStore,
         totalStock |-> totalStock,
         totalCut |-> totalCut,
         sellThroughRate |-> MetricsSellThrough(totalItems, totalStock)]

\* The sale records of the aggregation functions, and one that was
\* retained for its quantity and has no value.
MetricSaleSamples ==
    SaleSamples \cup
    { SaleRec(<<"r","o","w","-","5">>, <<"D">>, <<"Z","9">>, <<"T","o","p">>,
              <<"B","r","i","n","d","e">>, sNA, sU, Num(2), Num(0), Num(0)) }

CalculateMetrics ==
    /\ pc = "input"
    /\ metrics' = calculateMetrics(data, corteData)
    /\ pc' = "calculateMetrics"
    /\ UNCHANGED <<arg, result, aggVars, ingestVars, viewVars>>

NextMetrics ==
    \/ \E r \in MetricSaleSamples : AddSale(r)
    \/ \E r \in CorteSamples : AddCorte(r)
    \/ CalculateMetrics

SpecMetrics == InitAgg /\ [][NextMetrics]_vars

\* The stores of the sale records, and the summed revenue of a store.
Stores == {data[i].loja : i \in 1..Len(data)}
StoreRevenue(store) ==
    SumField(SelectSeq(data, LAMBDA r : r.loja = store), "valorTotal")
FirstSaleOf(store) ==
    CHOOSE i \in 1..Len(data) :
        data[i].loja = store /\ \A j \in 1..(i - 1) : data[j].loja # store

\* C18: for a non-empty sale sequence, topStore is the name of a store whose
\* summed revenue is the greatest of all stores, and of the stores with that
\* sum it is the one met first in the input.
C18_TopStore ==
    (pc = "calculateMetrics" /\ data # <<>>) =>
        /\ metrics.topStore \in Stores
        /\ \A s \in Stores :
              /\ ~NumGt(StoreRevenue(s), StoreRevenue(metrics.topStore))
              /\ StoreRevenue(s) = StoreRevenue(metrics.topStore) =>
                    FirstSaleOf(metrics.topStore) <= FirstSaleOf(s)

\* C19: totalRevenue, totalItems, totalStock and totalCut are the sums of
\* the input fields; averageTicket is totalRevenue over the number of sale
\* records, 0 when there is none; sellThroughRate is
\* 100 * totalItems / (totalItems + totalStock), 0 when that denominator is
\* not positive.
C19_Sums ==
    pc = "calculateMetrics" =>
        /\ metrics.totalRevenue = SumField(data, "valorTotal")
        /\ metrics.totalItems = SumField(data, "quantidade")
        /\ metrics.totalStock = SumField(data, "estoque")
        /\ metrics.totalCut = SumField(corteData, "quantidade")
        /\ metrics.averageTicket =
              IF data = <<>> THEN Num(0)
              ELSE Rat(metrics.totalRevenue[1], metrics.totalRevenue[2] * Len(data))
        /\ metrics.sellThroughRate =
              LET den == NumAdd(SumField(data, "quantidade"), SumField(data, "estoque"))
              IN  IF den[1] > 0
                  THEN Rat(100 * SumField(data, "quantidade")[1] * den[2],
                           SumField(data, "quantidade")[2] * den[1])
                  ELSE Num(0)

\* Sales with stock left and cuts: a rate strictly between 0 and 100, an
\* average over several records.
C19_Witness ==
    /\ pc = "calculateMetrics"
    /\ Len(data) >= 2
    /\ corteData # <<>>
    /\ NumGt(metrics.totalCut, Num(0))
    /\ NumGt(metrics.sellThroughRate, Num(0))
    /\ NumLt(metrics.sellThroughRate, Num(100))
    /\ metrics.averageTicket # metrics.totalRevenue

\* ======================================================================
\* The header search of both parsers, on sheets of more rows than the
\* search window.
\* ======================================================================
MaxSheetRows == 11
MaxHeaders == 2

\* A header with a name in each of its fifteen columns: it holds four and
\* more keywords of either parser.
HeaderRowSample ==
    <<StrVal(<<"D","a","t","a">>), StrVal(<<"L","o","j","a">>),
      StrVal(<<"C","o","d","i","g","o">>), StrVal(<<"P","r","o","d","u","t","o">>),
      StrVal(<<"C","o","r">>), StrVal(<<"T","a","m">>),
      StrVal(<<"C","o","l","e","c","a","o">>), StrVal(<<"x">>),
      StrVal(<<"M","o","d","e","l","o">>), StrVal(<<"x">>), StrVal(<<"Q","t","d">>),
      StrVal(<<"x">>), StrVal(<<"x">>), StrVal(<<"x">>), StrVal(<<"V","a","l","o","r">>)>>
\* A data row in the columns of that header, which are also the columns the
\* sales parser falls back to; it holds one keyword, 'produto', in its
\* product name.
OneKeywordRowSample ==
    <<StrVal(<<"1","1","/","0","1","/","2","0","2","4">>), StrVal(<<"S","u","l">>),
      StrVal(<<"K","2">>), StrVal(<<"P","r","o","d","u","t","o"," ","7">>),
      NumVal(Num(9)), StrVal(<<"G">>), Hole, Hole, Hole, Hole, NumVal(Num(3)), Hole,
      Hole, Hole, NumVal(Num(60))>>

\* The sheet holds one more row; at most MaxHeaders of its rows are headers.
AddSheetRow(r) ==
    /\ pc = "input"
    /\ Len(rows) < MaxSheetRows
    /\ Cardinality({i \in 1..Len(rows) : rows[i] = HeaderRowSample})
            + (IF r = HeaderRowSample THEN 1 ELSE 0) <= MaxHeaders
    /\ rows' = Append(rows, r)
    /\ UNCHANGED <<pc, timezone, parsed, aggVars, fnVars, viewVars>>

NextHeader ==
    \/ \E r \in {HeaderRowSample, OneKeywordRowSample} : AddSheetRow(r)
    \/ ParseExcelFile
    \/ ParseCorteFile

SpecHeader == InitCortes /\ [][NextHeader]_vars

\* The row the claim selects: the number (from 1) of the first of the first
\* ten rows that holds at least two keywords, which of the sample rows only
\* the header does; 0 when there is none.
ClaimHeaderRow ==
    IF \E i \in 1..Len(rows) : i <= 10 /\ rows[i] = HeaderRowSample
    THEN CHOOSE i \in 1..Len(rows) :
            /\ i <= 10 /\ rows[i] = HeaderRowSample
            /\ \A j \in 1..(i - 1) : rows[j] # HeaderRowSample
    ELSE 0

\* The rows after the selected row that are data: a header below the
\* selected one, or outside the window, is processed as a data row and
\* dropped for its cells.
ClaimDataRows == {i \in (ClaimHeaderRow + 1)..Len(rows) : rows[i] # HeaderRowSample}

\* C20: the header is the first of the first 10 rows whose cells hold at
\* least 2 keywords of the parser; the rows after it are the data rows, read
\* in the columns it names; when no row of the window qualifies every row,
\* row 0 included, is a data row, read in the fallback columns. For the
\* sales parser a record shows its row by its id and the header by its
\* loja; for the cuts parser the records show the rows and the columns by
\* their codigo, in row order.
C20_HeaderLocator ==
    /\ SalesDone =>
          /\ Len(parsed.value) = Cardinality(ClaimDataRows)
          /\ {<<parsed.value[n].id, parsed.value[n].loja>> : n \in 1..Len(parsed.value)}
                = {<<sRowDash \o NatToString(i - ClaimHeaderRow - 1),
                     IF ClaimHeaderRow = 0 THEN sOutros ELSE rows[i][2].v>> : i \in ClaimDataRows}
    /\ CortesDone =>
          /\ Len(parsed.value) = Cardinality(ClaimDataRows)
          /\ \A n \in 1..Len(parsed.value) :
                \E i \in ClaimDataRows :
                    /\ Cardinality({j \in ClaimDataRows : j <= i}) = n
                    /\ parsed.value[n].codigo =
                          IF ClaimHeaderRow = 0 THEN rows[i][1].v ELSE rows[i][3].v

\* A sheet of eleven rows whose only header is the eleventh, below a row
\* with one keyword: no header is found and the ten rows above are data.
C20_Witness ==
    /\ SalesDone
    /\ Len(rows) = 11
    /\ rows[11] = HeaderRowSample
    /\ rows[1] = OneKeywordRowSample
    /\ ClaimHeaderRow = 0
    /\ Len(parsed.value) = 10
    /\ parsed.value[1].loja = sOutros

\* ======================================================================
\* parseExcelFile on the sheet of the header scenario.
\* ======================================================================
ScenarioHeader ==
    <<StrVal(<<"D","a","t","a">>), StrVal(<<"L","o","j","a">>), StrVal(<<"C","o","d">>),
      StrVal(<<"D","e","s","c">>), StrVal(<<"C","o","r">>), StrVal(<<"T","a","m">>)>>
ScenarioTextRow ==
    <<StrVal(<<"2","0","2","4","-","0","3","-","1","5">>),
      StrVal(<<"L","o","j","a"," ","A">>), StrVal(<<"X","1">>),
      StrVal(<<"C","a","m","i","s","a">>), StrVal(<<"A","z","u","l">>), StrVal(<<"M">>)>>
ScenarioSerialRow ==
    <<NumVal(Num(40000)), StrVal(<<"L","o","j","a"," ","A">>), StrVal(<<"X","1">>),
      StrVal(<<"C","a","m","i","s","a">>), StrVal(<<"A","z","u","l">>), StrVal(<<"M">>)>>

NextScenario ==
    \/ \E r \in {ScenarioHeader, ScenarioTextRow, ScenarioSerialRow} : AddRow(r)
    \/ ReadFails
    \/ ParseExcelFile

SpecScenario == InitSales /\ [][NextScenario]_vars

ScenarioParsed ==
    /\ pc = "parseExcelFile"
    /\ rows = <<ScenarioHeader, ScenarioTextRow, ScenarioSerialRow>>

\* C21: for the sheet [Data, Loja, Cod, Desc, Cor, Tam], a row that starts
\* with "2024-03-15" and a row that starts with the number 40000, the header
\* search returns row 0, and the date cell 40000 of row 2, read in the
\* column the header names, is decoded to a non-empty YYYY-MM-DD string of
\* a year >= 2000.
C21_Scenario ==
    ScenarioParsed =>
        LET headerRowIndex == FindHeaderRowIndex(rows, SalesKeywords)
            c == SalesColumns(HeadersOf(rows, headerRowIndex))
            decoded == formatDate(getVal(rows[3], c.idxData), timezone)
        IN  /\ parsed.status = "resolved"
            /\ headerRowIndex = 0
            /\ DataRowsOf(rows, headerRowIndex) = <<ScenarioTextRow, ScenarioSerialRow>>
            /\ decoded # <<>>
            /\ IsoMatch(decoded)
            /\ DigitsValue(SubSeq(decoded, 1, 4)) >= 2000

\* The scenario sheet was parsed, and its serial 40000 is 2009-07-06.
C21_Witness ==
    /\ ScenarioParsed
    /\ parsed.status = "resolved"
    /\ SalesCleanedData(rows, timezone)[2].data = <<"2","0","0","9","-","0","7","-","0","6">>

\* ======================================================================
\* The column indexes of both parsers, on sheets with headers of several
\* layouts and without header.
\* ======================================================================
\* Headers: one that names every field away from its fallback column, one
\* with two value columns and a column named just Total, one that names two
\* fields only, one in the words of a cuts sheet; and two data rows.
ColumnRowSamples ==
    { <<StrVal(<<"D","a","t","a">>), StrVal(<<"L","o","j","a">>),
        StrVal(<<"C","a","t","e","g","o","r","i","a">>), StrVal(<<"G","r","u","p","o">>),
        StrVal(<<"C","o","d","i","g","o">>), StrVal(<<"P","r","o","d","u","t","o">>),
        StrVal(<<"C","o","r">>), StrVal(<<"T","a","m">>),
        StrVal(<<"C","o","l","e","c","a","o">>), StrVal(<<"M","o","d","e","l","o">>),
        StrVal(<<"E","s","t","o","q","u","e">>), StrVal(<<"Q","t","d">>),
        StrVal(<<"V","a","l","o","r">>)>>,
      <<StrVal(<<"E","m","i","s","s","a","o">>), StrVal(<<"F","i","l","i","a","l">>),
        StrVal(<<"R","e","f">>), StrVal(<<"D","e","s","c","r","i","c","a","o">>),
        StrVal(<<"V","a","l","o","r"," ","B","r","u","t","o">>),
        StrVal(<<"T","o","t","a","l">>),
        StrVal(<<"V","a","l","o","r"," ","L","i","q","u","i","d","o">>)>>,
      <<StrVal(<<"L","o","j","a">>), StrVal(<<"C","o","r">>)>>,
      <<StrVal(<<"C","o","r">>), StrVal(<<"T","a","m","a","n","h","o">>),
        StrVal(<<"D","e","s","c","r","i","c","a","o">>),
        StrVal(<<"T","o","t","a","l"," ","C","o","r","t","a","d","o">>),
        StrVal(<<"R","e","f">>)>>,
      <<StrVal(<<"1","5","/","0","3","/","2","0","2","4">>),
        StrVal(<<"L","o","j","a"," ","A">>), StrVal(<<"T","o","p">>),
        StrVal(<<"B","a","s","i","c","o">>), StrVal(<<"X","1">>),
        StrVal(<<"C","a","m","i","s","a">>), StrVal(<<"A","z","u","l">>), StrVal(<<"M">>),
        StrVal(<<"V","e","r","2","4">>), StrVal(<<"M","o","d">>), NumVal(Num(3)),
        NumVal(Num(5)), StrVal(<<"1","0","0",",","5","0">>), Hole, NumVal(Num(50))>>,
      <<StrVal(<<"X","1">>), StrVal(<<"C","a","m","i","s","a">>),
        StrVal(<<"A","z","u","l">>), StrVal(<<"M">>), NumVal(Num(10))>> }

NextColumns ==
    \/ \E r \in ColumnRowSamples : AddRow(r)
    \/ ReadFails
    \/ ParseExcelFile
    \/ ParseCorteFile

SpecColumns == InitCortes /\ [][NextColumns]_vars

\* The 0-based index of the leftmost header cell that contains one of the
\* keywords, or -1.
ClaimLeftmost(headers, kws) ==
    LET hits == {i \in 1..Len(headers) :
                    /\ headers[i].t = "string"
                    /\ \E k \in 1..Len(kws) : Includes(headers[i].v, kws[k])}
    IN  IF hits = {} THEN -1 ELSE (CHOOSE i \in hits : \A j \in hits : i <= j) - 1

\* ... or the fixed position of the field.
ClaimColumn(headers, kws, position) ==
    IF ClaimLeftmost(headers, kws) = -1 THEN position ELSE ClaimLeftmost(headers, kws)

\* The header cells of the sheet, as each parser finds them.
ClaimSalesHeaders == HeadersOf(rows, FindHeaderRowIndex(rows, SalesKeywords))
ClaimCorteHeaders == HeadersOf(rows, FindHeaderRowIndex(rows, CorteKeywords))

\* The fields of the sales parser other than quantity and value, and the
\* defaults of the fields that stay unresolved.
ClaimSalesFields(h, c) ==
    /\ c.idxCodigo = ClaimColumn(h, kwCodigo, 2)
    /\ c.idxProd = ClaimColumn(h, kwProduto, 3)
    /\ c.idxCor = ClaimColumn(h, kwCor, 4)
    /\ c.idxTam = ClaimColumn(h, kwTamanho, 5)
    /\ c.idxColecao = ClaimColumn(h, kwColecao, 6)
    /\ c.idxModelo = ClaimColumn(h, kwModelo, 8)
    /\ c.idxData = ClaimColumn(h, kwData, 0)
    /\ c.idxLoja = ClaimLeftmost(h, kwLoja)
    /\ c.idxCat = ClaimLeftmost(h, kwCategoria)
    /\ c.idxSub = ClaimLeftmost(h, kwSub)
    /\ c.idxEstoque = ClaimLeftmost(h, kwEstoque)
    /\ \A n \in 1..Len(parsed.value) :
          /\ c.idxLoja = -1 => parsed.value[n].loja = sOutros
          /\ c.idxCat = -1 => parsed.value[n].categoria = sOutros
          /\ c.idxSub = -1 => parsed.value[n].subCategoria = sOutros
          /\ c.idxEstoque = -1 => parsed.value[n].estoque = Num(0)

\* The fields of the cuts parser.
ClaimCorteFields(h, c) ==
    /\ c.idxCodigo = ClaimColumn(h, kwCodigo, 0)
    /\ c.idxCor = ClaimColumn(h, kwCor, 2)
    /\ c.idxTam = ClaimColumn(h, kwTamanho, 3)
    /\ c.idxQtd = ClaimColumn(h, kwCorteQtd, 4)

\* C22 as stated: every field is the leftmost header cell that contains any
\* of its keywords, and its fixed position when no cell does or no header
\* was found: sales code 2, description 3, color 4, size 5, collection 6,
\* model 8, quantity 10, value 14, date 0; cuts code 0, color 2, size 3,
\* quantity 4; store, category, sub-category and stock have no fixed
\* position and every record gets their default.
C22_LeftmostKeyword ==
    /\ SalesDone =>
          /\ ClaimSalesFields(ClaimSalesHeaders, SalesColumns(ClaimSalesHeaders))
          /\ SalesColumns(ClaimSalesHeaders).idxQtd = ClaimColumn(ClaimSalesHeaders, kwQtd, 10)
          /\ SalesColumns(ClaimSalesHeaders).idxVal =
                ClaimColumn(ClaimSalesHeaders, kwLiquido \o kwValorTotal \o kwValor, 14)
    /\ CortesDone => ClaimCorteFields(ClaimCorteHeaders, CorteColumns(ClaimCorteHeaders))

\* C22, amended: as stated, but the value column of a sales sheet is looked
\* for with the net-value keywords first, then 'valor total' and 'venda',
\* then 'valor', each over the whole header; and with no quantity keyword
\* in the header the quantity column of a sales sheet is the leftmost cell
\* that is exactly 'total', before its fixed position.
C22_Resolver ==
    /\ SalesDone =>
          /\ ClaimSalesFields(ClaimSalesHeaders, SalesColumns(ClaimSalesHeaders))
          /\ SalesColumns(ClaimSalesHeaders).idxQtd =
                ClaimColumn(ClaimSalesHeaders, kwQtd,
                            IF \E i \in 1..Len(ClaimSalesHeaders) : ClaimSalesHeaders[i] = StrVal(sTotal)
                            THEN (CHOOSE i \in 1..Len(ClaimSalesHeaders) :
                                    /\ ClaimSalesHeaders[i] = StrVal(sTotal)
                                    /\ \A j \in 1..(i - 1) : ClaimSalesHeaders[j] # StrVal(sTotal)) - 1
                            ELSE 10)
          /\ SalesColumns(ClaimSalesHeaders).idxVal =
                ClaimColumn(ClaimSalesHeaders, kwLiquido,
                    ClaimColumn(ClaimSalesHeaders, kwValorTotal,
                        ClaimColumn(ClaimSalesHeaders, kwValor, 14)))
    /\ CortesDone => ClaimCorteFields(ClaimCorteHeaders, CorteColumns(ClaimCorteHeaders))

\* A sales sheet whose header has a gross value column to the left of the
\* net value column and a column named Total was parsed, and one without
\* header.
C22_Witness ==
    /\ SalesDone
    /\ Len(rows) = 2
    /\ SalesColumns(ClaimSalesHeaders).idxVal = 6
    /\ SalesColumns(ClaimSalesHeaders).idxQtd = 5
    /\ ClaimLeftmost(ClaimSalesHeaders, kwValor) = 4
    /\ SalesColumns(ClaimSalesHeaders).idxCor = 4

\* ------------------------------------- calculateMetrics and the cut data
\* Every cut sequence of the model.
ClaimCutSequences == UNION {[1..n -> CorteSamples] : n \in 0..MaxCortes}
OtherThanCut == {"totalRevenue", "totalItems", "averageTicket", "topStore", "totalStock",
                 "sellThroughRate"}

\* C28: the metrics other than totalCut do not depend on the cut data: for
\* the sale sequence of a call, every other cut sequence gives the same
\* totalRevenue, totalItems, averageTicket, topStore, totalStock and
\* sellThroughRate.
C28_CutIndependent ==
    pc = "calculateMetrics" =>
        \A c \in ClaimCutSequences :
           \A f \in OtherThanCut : calculateMetrics(data, c)[f] = metrics[f]

\* Metrics were computed for sales with stock and cuts, and without the cuts
\* only totalCut is another.
C28_Witness ==
    /\ pc = "calculateMetrics"
    /\ Len(data) = MaxSales
    /\ NumGt(metrics.totalStock, Num(0))
    /\ NumGt(metrics.totalCut, Num(0))
    /\ calculateMetrics(data, <<>>).totalCut = Num(0)
    /\ calculateMetrics(data, <<>>).sellThroughRate = metrics.sellThroughRate

\* ------------------------------------------------------------- sortSizes
MaxSizes == 3

sizeOrder ==
    <<<<"R","N">>, <<"P","P">>, <<"P">>, <<"M">>, <<"G">>, <<"G","G">>,
      <<"X","G">>, <<"X","G","G">>, <<"X","X","G">>, <<"U">>, <<"U","N">>, <<"U'","N","I","C","O">>,
      <<"3","4">>, <<"3","6">>, <<"3","8">>, <<"4","0">>, <<"4","2">>, <<"4","4">>,
      <<"4","6">>, <<"4","8">>, <<"5","0">>, <<"5","2">>, <<"5","4">>>>

\* parseInt(s): white space, a sign and the longest run of decimal digits;
\* NaN when no digit is there.
ParseInt(s) ==
    LET t == TrimStart(s)
        signed == t # <<>> /\ Head(t) \in {"-", "+"}
        start == IF signed THEN 2 ELSE 1
        n == DigitRun(t, start)
        mag == Num(DigitsValue(SubSeq(t, start, start + n - 1)))
    IN  IF n = 0 THEN NaN
        ELSE IF signed /\ Head(t) = "-" THEN NumSub(Num(0), mag) ELSE mag

\* a.localeCompare(b, undefined, { numeric: true, sensitivity: 'base' }):
\* accent and case do not count, and a run of digits counts as its number.
RECURSIVE LocaleCompareNumericBase(_, _)
LocaleCompareNumericBase(a, b) ==
    IF a = <<>> /\ b = <<>> THEN 0
    ELSE IF a = <<>> THEN -1
    ELSE IF b = <<>> THEN 1
    ELSE IF Head(a) \in DigitSet /\ Head(b) \in DigitSet
    THEN LET na == DigitRun(a, 1)
             nb == DigitRun(b, 1)
             va == DigitsValue(SubSeq(a, 1, na))
             vb == DigitsValue(SubSeq(b, 1, nb))
         IN  IF va < vb THEN -1
             ELSE IF va > vb THEN 1
             ELSE LocaleCompareNumericBase(SubSeq(a, na + 1, Len(a)), SubSeq(b, nb + 1, Len(b)))
    ELSE IF PrimaryWeight(Head(a)) < PrimaryWeight(Head(b)) THEN -1
    ELSE IF PrimaryWeight(Head(a)) > PrimaryWeight(Head(b)) THEN 1
    ELSE LocaleCompareNumericBase(Tail(a), Tail(b))

\* sizeOrder.indexOf(name): a 0-based index, or -1
SizeIndexOf(name) == IndexOf(sizeOrder, name) - 1

\* The comparator of sortSizes, as the sign of what it returns.
CompareSizes(a, b) ==
    LET nameA == ToUpperCase(a.name)
        nameB == ToUpperCase(b.name)
        indexA == SizeIndexOf(nameA)
        indexB == SizeIndexOf(nameB)
        numA == ParseInt(nameA)
        numB == ParseInt(nameB)
    IN  IF indexA # -1 /\ indexB # -1 THEN NumSign(Num(indexA - indexB))
        ELSE IF indexA # -1 THEN -1
        ELSE IF indexB # -1 THEN 1
        ELSE IF numA # NaN /\ numB # NaN THEN NumSign(NumSub(numA, numB))
        ELSE LocaleCompareNumericBase(a.name, b.name)

\* [...data].sort(comparator): a stable sort of a copy
sortSizes(s) ==
    LET before(j, i) ==
            \/ CompareSizes(s[j], s[i]) < 0
            \/ CompareSizes(s[j], s[i]) = 0 /\ j < i
        place(i) == Cardinality({j \in 1..Len(s) : before(j, i)}) + 1
    IN  [k \in 1..Len(s) |-> s[CHOOSE i \in 1..Len(s) : place(i) = k]]

\* The size names of the model: listed sizes in both cases, unlisted
\* numbers, an unlisted word and the placeholder '-'.  aggregateBy gives
\* each name once.
SizeNameSamples == {<<"M">>, <<"p">>, <<"3","8">>, <<"5","6">>, <<"4">>, <<"E","G">>, <<"-">>}

SizeLists ==
    UNION {{s \in [1..n -> SizeNameSamples] : \A i, j \in 1..n : i # j => s[i] # s[j]} :
              n \in 0..MaxSizes}

InitSizes ==
    /\ pc = "input"
    /\ \E names \in SizeLists :
          sizes = [i \in 1..Len(names) |-> [name |-> names[i], value |-> Num(i)]]
    /\ sorted = <<>>
    /\ dash = <<>>
    /\ upl = <<>>
    /\ arg = <<>>
    /\ result = <<>>
    /\ metrics = <<>>
    /\ timezone = 0
    /\ rows = <<>>
    /\ parsed = Pending
    /\ data = <<>>
    /\ corteData = <<>>
    /\ tableData = <<>>
    /\ aggregated = <<>>
    /\ aggArgs = [groupKey |-> "tamanho", valueKey |-> "quantidade"]

\* sortSizes(sizes)
SortSizes ==
    /\ pc = "input"
    /\ sorted' = sortSizes(sizes)
    /\ pc' = "sortSizes"
    /\ UNCHANGED <<sizes, dash, upl, aggVars, ingestVars, fnVars>>

NextSizes == SortSizes

SpecSizes == InitSizes /\ [][NextSizes]_vars

\* The tier the claim gives a size: 1 listed, 2 unlisted with an integer
\* prefix, 3 the rest.
ClaimTier(name) ==
    IF \E i \in 1..Len(sizeOrder) : sizeOrder[i] = ToUpperCase(name) THEN 1
    ELSE IF ParseInt(name) # NaN THEN 2
    ELSE 3

\* C23: sortSizes returns the listed sizes first, in the order of the list,
\* then the unlisted sizes that parse as integers, ascending, then the sizes
\* that do not parse, and it leaves its input as it was.
C23_ThreeTiers ==
    pc = "sortSizes" =>
        /\ Len(sorted) = Len(sizes)
        /\ \A i, j \in 1..Len(sorted) :
              i < j =>
                 /\ ClaimTier(sorted[i].name) <= ClaimTier(sorted[j].name)
                 /\ (ClaimTier(sorted[i].name) = 1 /\ ClaimTier(sorted[j].name) = 1) =>
                       IndexOf(sizeOrder, ToUpperCase(sorted[i].name))
                           <= IndexOf(sizeOrder, ToUpperCase(sorted[j].name))
                 /\ (ClaimTier(sorted[i].name) = 2 /\ ClaimTier(sorted[j].name) = 2) =>
                       ~NumGt(ParseInt(sorted[i].name), ParseInt(sorted[j].name))

\* ======================================================================
\* Text fields of the records (parseExcelFile, parseCorteFile)
\* ======================================================================
\* A sales header, a sales row whose description and color are cells of
\* white space and whose collection is an empty cell, a sales row whose text
\* cells are missing, and a cut row whose color is a cell of white space.
TextRowSamples ==
    { <<StrVal(<<"D","a","t","a">>), StrVal(<<"L","o","j","a">>),
        StrVal(<<"C","a","t","e","g","o","r","i","a">>), StrVal(<<"G","r","u","p","o">>),
        StrVal(<<"C","o","d","i","g","o">>), StrVal(<<"P","r","o","d","u","t","o">>),
        StrVal(<<"C","o","r">>), StrVal(<<"T","a","m">>),
        StrVal(<<"C","o","l","e","c","a","o">>), StrVal(<<"M","o","d","e","l","o">>),
        StrVal(<<"E","s","t","o","q","u","e">>), StrVal(<<"Q","t","d">>),
        StrVal(<<"V","a","l","o","r">>)>>,
      <<StrVal(<<"2","0","2","4","-","0","3","-","1","5">>),
        StrVal(<<" ","L","o","j","a"," ","A"," ">>), StrVal(<<"T","o","p">>),
        StrVal(<<"B","l","u","s","a">>), StrVal(<<"X","1">>), StrVal(<<" "," ">>),
        StrVal(<<" ">>), StrVal(<<"M"," ">>), StrVal(<<>>), StrVal(<<"M","o","d">>),
        NumVal(Num(3)), NumVal(Num(2)), NumVal(Num(100))>>,
      <<StrVal(<<"2","0","2","4","-","0","3","-","1","6">>), Hole, Hole, Hole,
        StrVal(<<"X","2">>), Hole, Hole, Hole, Hole, Hole, Hole, NumVal(Num(1)),
        NumVal(Num(50))>>,
      <<StrVal(<<"X","1">>), StrVal(<<"C","a","m","i","s","a">>), StrVal(<<" "," ">>),
        StrVal(<<" ","M">>), NumVal(Num(10))>> }

NextText ==
    \/ \E r \in TextRowSamples : AddRow(r)
    \/ ReadFails
    \/ ParseExcelFile
    \/ ParseCorteFile

SpecText == InitCortes /\ [][NextText]_vars

\* C26: every text field of a returned record is trimmed and is the default
\* when its cell is missing, empty or blank, so no returned record has an
\* empty store, category, sub-category, product name, color, size, model or
\* collection.
C26_NoEmptyText ==
    /\ SalesDone =>
          \A i \in 1..Len(parsed.value) :
             \A f \in {"loja", "categoria", "subCategoria", "produto", "cor", "tamanho",
                       "modelo", "colecao"} :
                parsed.value[i][f] # <<>> /\ parsed.value[i][f] = Trim(parsed.value[i][f])
    /\ CortesDone =>
          \A i \in 1..Len(parsed.value) :
             \A f \in {"cor", "tamanho"} :
                parsed.value[i][f] # <<>> /\ parsed.value[i][f] = Trim(parsed.value[i][f])

\* ======================================================================
\* The Dashboard component: filters, sort, rows per page and page
\* ======================================================================
\* The props of the model: twelve sale records of two stores and one month,
\* each a row of the detail table, and two cut records, one of them of a
\* product that was never sold.
DashSale(loja, codigo, categoria, cor, tamanho, date) ==
    [id |-> <<"r">>, loja |-> loja, codigo |-> codigo, categoria |-> categoria,
     subCategoria |-> sOutros, produto |-> <<"P">>, cor |-> cor, tamanho |-> tamanho,
     modelo |-> sNA, colecao |-> sNA, quantidade |-> Num(1), valorTotal |-> Num(10),
     estoque |-> Num(0), data |-> date]
DashData ==
    <<DashSale(<<"L","1">>, <<"A","1">>, <<"T","o","p">>, <<"A","z">>, <<"P">>, <<"2","0","2","4","-","0","1","-","1","0">>),
      DashSale(<<"L","1">>, <<"A","1">>, <<"T","o","p">>, <<"A","z">>, <<"M">>, <<"2","0","2","4","-","0","1","-","2","0">>),
      DashSale(<<"L","2">>, <<"A","1">>, <<"T","o","p">>, <<"V","e">>, <<"P">>, <<"2","0","2","4","-","0","1","-","1","0">>),
      DashSale(<<"L","1">>, <<"A","1">>, <<"T","o","p">>, <<"V","e">>, <<"M">>, <<"2","0","2","4","-","0","1","-","2","0">>),
      DashSale(<<"L","1">>, <<"A","2">>, <<"T","o","p">>, <<"A","z">>, <<"P">>, <<"2","0","2","4","-","0","1","-","1","0">>),
      DashSale(<<"L","2">>, <<"A","2">>, <<"T","o","p">>, <<"A","z">>, <<"M">>, <<"2","0","2","4","-","0","1","-","2","0">>),
      DashSale(<<"L","1">>, <<"A","2">>, <<"T","o","p">>, <<"V","e">>, <<"P">>, <<"2","0","2","4","-","0","1","-","1","0">>),
      DashSale(<<"L","1">>, <<"A","2">>, <<"T","o","p">>, <<"V","e">>, <<"M">>, <<"2","0","2","4","-","0","1","-","2","0">>),
      DashSale(<<"L","2">>, <<"B","1">>, <<"T","o","p">>, <<"A","z">>, <<"P">>, <<"2","0","2","4","-","0","1","-","1","0">>),
      DashSale(<<"L","1">>, <<"B","1">>, <<"T","o","p">>, <<"A","z">>, <<"M">>, <<"2","0","2","4","-","0","1","-","2","0">>),
      DashSale(<<"L","1">>, <<"B","1">>, <<"T","o","p">>, <<"V","e">>, <<"P">>, <<"2","0","2","4","-","0","1","-","1","0">>),
      DashSale(<<"L","2">>, <<"B","1">>, <<"T","o","p">>, <<"V","e">>, <<"M">>, <<"2","0","2","4","-","0","1","-","2","0">>)>>
DashCorteData ==
    <<CorteRec(<<"A","1">>, <<"A","z">>, <<"P">>, Num(5)),
      CorteRec(<<"C","9">>, <<"A","z">>, <<"P">>, Num(5))>>

\* The UTF-16 code unit of a character of a date, and a < b on strings
CodeUnit(c) == IF c = "-" THEN 45 ELSE 48 + DigitValue(c)
StringLess(a, b) ==
    LexCmp([i \in 1..Len(a) |-> CodeUnit(a[i])], [i \in 1..Len(b) |-> CodeUnit(b[i])]) < 0

\* Array.from(new Set(data.map(d => d[field]))): the values of a select
OptionsOf(field) == {data[i][field] : i \in 1..Len(data)}
sAll == <<"a","l","l">>

\* [...data].map(d => d.data).sort(): its first and its last element, cut to
\* the month
minAllowedDate ==
    LET dates == OptionsOf("data")
    IN  SubSeq(CHOOSE d \in dates : \A e \in dates : ~StringLess(e, d), 1, 7)
maxAllowedDate ==
    LET dates == OptionsOf("data")
    IN  SubSeq(CHOOSE d \in dates : \A e \in dates : ~StringLess(d, e), 1, 7)

\* productMetaMap.get(key): category and collection of the first sale of
\* the code, or undefined
MetaIndex(key) ==
    IF \E i \in 1..Len(data) : Trim(data[i].codigo) = key
    THEN CHOOSE i \in 1..Len(data) :
            /\ Trim(data[i].codigo) = key
            /\ \A j \in 1..(i - 1) : Trim(data[j].codigo) # key
    ELSE 0
ProductMeta(key) ==
    IF MetaIndex(key) = 0 THEN Undefined
    ELSE [t |-> "object", cat |-> data[MetaIndex(key)].categoria,
          col |-> data[MetaIndex(key)].colecao]

\* filteredSalesData for the filters f
filteredSalesData(f) ==
    LET term == Trim(ToLowerCase(f.searchCode))
        keep(item) ==
            /\ f.selectedStore = sAll \/ item.loja = f.selectedStore
            /\ f.selectedCategory = sAll \/ item.categoria = f.selectedCategory
            /\ f.selectedColecao = sAll \/ item.colecao = f.selectedColecao
            /\ ~(f.start # <<>> /\ StringLess(item.data, f.start \o <<"-","0","1">>))
            /\ ~(f.end # <<>> /\ StringLess(f.end \o <<"-","3","1">>, item.data))
            /\ term # <<>> => Includes(ToLowerCase(item.codigo), term)
    IN  SelectSeq(data, keep)

\* meta?.cat || 'Outros' and meta?.col || 'N/A' for the cut record item
ItemCat(item) ==
    IF ProductMeta(Trim(item.codigo)) = Undefined \/ ProductMeta(Trim(item.codigo)).cat = <<>>
    THEN sOutros ELSE ProductMeta(Trim(item.codigo)).cat
ItemCol(item) ==
    IF ProductMeta(Trim(item.codigo)) = Undefined \/ ProductMeta(Trim(item.codigo)).col = <<>>
    THEN sNA ELSE ProductMeta(Trim(item.codigo)).col

\* filteredCorteData for the filters f
filteredCorteData(f) ==
    LET term == Trim(ToLowerCase(f.searchCode))
        keep(item) ==
            /\ f.selectedCategory = sAll \/ ItemCat(item) = f.selectedCategory
            /\ f.selectedColecao = sAll \/ ItemCol(item) = f.selectedColecao
            /\ term # <<>> => Includes(ToLowerCase(Trim(item.codigo)), term)
    IN  IF f.selectedCategory = sAll /\ f.selectedColecao = sAll /\ term = <<>>
        THEN corteData
        ELSE SelectSeq(corteData, keep)

\* What the controls offer: the selects list 'all' and the values of the
\* data, a month input gives '' or a month between the first and the last,
\* the search box any text.
StoreChoices == {sAll} \cup OptionsOf("loja")
CategoryChoices == {sAll} \cup OptionsOf("categoria")
ColecaoChoices == {sAll} \cup OptionsOf("colecao")
MonthChoices == {<<>>, minAllowedDate, maxAllowedDate}
SearchChoices == {<<>>, <<" ","b"," ">>}
RowsPerPageChoices == {10, 20, 50, 100}
SortKeys == {"faturado"}

\* The keys of the Map that prepareDataTable(filteredSalesData,
\* filteredCorteData) fills: one entry, and so one row of tableData, for each
\* key of a sale or cut record it is given.
TableKeys(f) ==
    LET sales == filteredSalesData(f)
        cortes == filteredCorteData(f)
    IN  {genKey(sales[i].codigo, sales[i].cor, sales[i].tamanho) : i \in 1..Len(sales)}
            \cup {genKey(cortes[i].codigo, cortes[i].cor, cortes[i].tamanho) :
                      i \in 1..Len(cortes)}

FiltersOf(d) ==
    [selectedStore |-> d.selectedStore, selectedCategory |-> d.selectedCategory,
     selectedColecao |-> d.selectedColecao, start |-> d.dateRange.start,
     end |-> d.dateRange.end, searchCode |-> d.searchCode]

\* The render that follows a change of a filter: the memos filteredSalesData,
\* filteredCorteData and tableData are computed anew.  Of tableData the
\* state keeps the length; the sort by sortConfig reorders the rows and
\* leaves their number.
Render(d) == [d EXCEPT !.tableLength = Cardinality(TableKeys(FiltersOf(d)))]

\* Math.ceil(tableData.length / rowsPerPage)
totalPages(d) == (d.tableLength + d.rowsPerPage - 1) \div d.rowsPerPage

\* The component after its first render and the effect that sets the date
\* range to the months of the data.
InitDash ==
    /\ pc = "dashboard"
    /\ data = DashData
    /\ corteData = DashCorteData
    /\ dash = Render([selectedStore |-> sAll, selectedCategory |-> sAll,
                       selectedColecao |-> sAll,
                       dateRange |-> [start |-> minAllowedDate, end |-> maxAllowedDate],
                       searchCode |-> <<>>,
                       sortConfig |-> [key |-> "faturado", direction |-> "desc"],
                       rowsPerPage |-> 10, currentPage |-> 1, tableLength |-> 0])
    /\ sizes = <<>> /\ sorted = <<>> /\ upl = <<>>
    /\ arg = <<>> /\ result = <<>> /\ metrics = <<>>
    /\ timezone = 0 /\ rows = <<>> /\ parsed = Pending
    /\ tableData = <<>> /\ aggregated = <<>>
    /\ aggArgs = [groupKey |-> "loja", valueKey |-> "valorTotal"]

DashUnchanged == UNCHANGED <<pc, sizes, sorted, upl, aggVars, ingestVars, fnVars>>

\* the month inputs: setDateRange(prev => ({ ...prev, start: e.target.value }))
SetDateStart(v) ==
    /\ dash' = Render([dash EXCEPT !.dateRange.start = v])
    /\ DashUnchanged
SetDateEnd(v) ==
    /\ dash' = Render([dash EXCEPT !.dateRange.end = v])
    /\ DashUnchanged

\* the selects: setSelectedStore / setSelectedCategory / setSelectedColecao
SetSelectedStore(v) ==
    /\ dash' = Render([dash EXCEPT !.selectedStore = v])
    /\ DashUnchanged
SetSelectedCategory(v) ==
    /\ dash' = Render([dash EXCEPT !.selectedCategory = v])
    /\ DashUnchanged
SetSelectedColecao(v) ==
    /\ dash' = Render([dash EXCEPT !.selectedColecao = v])
    /\ DashUnchanged

\* the button that clears the filters
ClearFilters ==
    /\ dash' = Render([dash EXCEPT !.selectedStore = sAll, !.selectedCategory = sAll,
                                   !.selectedColecao = sAll, !.searchCode = <<>>])
    /\ DashUnchanged

\* the search box: setSearchCode(e.target.value); setCurrentPage(1)
SetSearchCode(v) ==
    /\ dash' = Render([dash EXCEPT !.searchCode = v, !.currentPage = 1])
    /\ DashUnchanged

\* the rows-per-page select: setRowsPerPage(Number(e.target.value)); setCurrentPage(1)
SetRowsPerPage(n) ==
    /\ dash' = [dash EXCEPT !.rowsPerPage = n, !.currentPage = 1]
    /\ DashUnchanged

\* handleSort(key)
HandleSort(key) ==
    /\ dash' = [dash EXCEPT
                   !.sortConfig =
                       [key |-> key,
                        direction |-> IF dash.sortConfig.key = key
                                         /\ dash.sortConfig.direction = "asc"
                                      THEN "desc" ELSE "asc"],
                   !.currentPage = 1]
    /\ DashUnchanged

\* handlePageChange(newPage)
handlePageChange(d, newPage) ==
    IF newPage >= 1 /\ newPage <= totalPages(d) THEN [d EXCEPT !.currentPage = newPage] ELSE d

\* the arrows of the footer, disabled on the first and on the last page
PreviousPage ==
    /\ dash.currentPage # 1
    /\ dash' = handlePageChange(dash, dash.currentPage - 1)
    /\ DashUnchanged
NextPage ==
    /\ dash.currentPage # totalPages(dash)
    /\ dash' = handlePageChange(dash, dash.currentPage + 1)
    /\ DashUnchanged

\* the i-th page button of the footer, of at most five
PageButton(i) ==
    LET pageNum == IF totalPages(dash) > 5 /\ dash.currentPage > 3
                   THEN dash.currentPage - 3 + i ELSE i + 1
    IN  /\ i < Min(5, totalPages(dash))
        /\ pageNum <= totalPages(dash)
        /\ dash' = handlePageChange(dash, pageNum)
        /\ DashUnchanged

NextDash ==
    \/ \E v \in MonthChoices : SetDateStart(v)
    \/ \E v \in MonthChoices : SetDateEnd(v)
    \/ \E v \in StoreChoices : SetSelectedStore(v)
    \/ \E v \in CategoryChoices : SetSelectedCategory(v)
    \/ \E v \in ColecaoChoices : SetSelectedColecao(v)
    \/ ClearFilters
    \/ \E v \in SearchChoices : SetSearchCode(v)
    \/ \E n \in RowsPerPageChoices : SetRowsPerPage(n)
    \/ \E key \in SortKeys : HandleSort(key)
    \/ PreviousPage
    \/ NextPage
    \/ \E i \in 0..4 : PageButton(i)

SpecDash == InitDash /\ [][NextDash]_vars

\* C29: after every sequence of filter, sort, rows-per-page and page
\* changes, currentPage is within 1..max(1, totalPages), totalPages being the
\* number of detail rows over rowsPerPage, rounded up.
C29_PageInRange ==
    pc = "dashboard" =>
        /\ dash.currentPage >= 1
        /\ dash.currentPage <= (IF totalPages(dash) > 1 THEN totalPages(dash) ELSE 1)

\* ======================================================================
\* The DataUploader component: file selection and handleProcess
\* ======================================================================
MaxCalls == 2

\* A file is what its parser makes of it: rows, no row, or a rejection.
\* "none" is null.
Files == {"rows", "empty", "broken"}

\* the beginning of each message that setError shows
NoSalesFile == "Por favor, carregue pelo menos o arquivo de Vendas."
EmptySales == "O arquivo de Vendas parece estar vazio"
ProcessFailed == "Erro ao processar os arquivos."

\* The state after the first render.  step is where handleProcess stands
\* ("idle": not running, "sales": awaiting parseExcelFile, "cuts": awaiting
\* parseCorteFile), run the files its closure holds, timers the pending
\* timeouts with the data they will hand over, delivered the calls of
\* onDataLoaded so far.
InitUpload ==
    /\ pc = "uploader"
    /\ upl = [isLoading |-> FALSE, error |-> "none", salesFile |-> "none",
              cutsFile |-> "none", loadedStats |-> Null, step |-> "idle",
              run |-> [salesFile |-> "none", cutsFile |-> "none"],
              salesData |-> "none", timers |-> <<>>, delivered |-> <<>>]
    /\ sizes = <<>> /\ sorted = <<>> /\ dash = <<>>
    /\ arg = <<>> /\ result = <<>> /\ metrics = <<>>
    /\ timezone = 0 /\ rows = <<>> /\ parsed = Pending
    /\ data = <<>> /\ corteData = <<>> /\ tableData = <<>> /\ aggregated = <<>>
    /\ aggArgs = [groupKey |-> "loja", valueKey |-> "valorTotal"]

UploadUnchanged == UNCHANGED <<pc, sizes, sorted, dash, aggVars, ingestVars, fnVars>>

\* the file inputs, disabled while isLoading: setFile(e.target.files?.[0] || null)
SetSalesFile(f) ==
    /\ ~upl.isLoading
    /\ upl' = [upl EXCEPT !.salesFile = f]
    /\ UploadUnchanged
SetCutsFile(f) ==
    /\ ~upl.isLoading
    /\ upl' = [upl EXCEPT !.cutsFile = f]
    /\ UploadUnchanged

\* a mutation of ButtonDisabled: a loaded result does not disable the button
ButtonDisabledWhileLoading(u) == u.isLoading \/ u.salesFile = "none"
\* disabled={isLoading || !salesFile || loadedStats !== null}
ButtonDisabled(u) == u.isLoading \/ u.salesFile = "none" \/ u.loadedStats # Null

\* A click on the process button: handleProcess up to its first await.
HandleProcess ==
    /\ ~ButtonDisabled(upl)
    /\ upl' = IF upl.salesFile = "none"
              THEN [upl EXCEPT !.error = NoSalesFile]
              ELSE [upl EXCEPT !.isLoading = TRUE, !.error = "none", !.loadedStats = Null,
                               !.step = "sales",
                               !.run = [salesFile |-> upl.salesFile, cutsFile |-> upl.cutsFile]]
    /\ UploadUnchanged

\* catch and finally: the error is shown and isLoading is false again
Failed(u) ==
    [u EXCEPT !.error = ProcessFailed, !.isLoading = FALSE, !.step = "idle"]

\* handleProcess from the test of salesData.length to its end, finally
\* included
Finish(u, salesData, cutsData) ==
    IF salesData = "empty"
    THEN [u EXCEPT !.error = EmptySales, !.isLoading = FALSE, !.step = "idle"]
    ELSE [u EXCEPT !.loadedStats = [sales |-> salesData, cuts |-> cutsData],
                   !.timers = Append(@, [salesData |-> salesData, cutsData |-> cutsData,
                                         run |-> u.run]),
                   !.isLoading = FALSE, !.step = "idle"]

\* The promise of parseExcelFile settles: handleProcess goes on to its next
\* await, or to its end when no cuts file was chosen or the promise rejected.
SalesParsed ==
    /\ upl.step = "sales"
    /\ upl' = IF upl.run.salesFile = "broken" THEN Failed(upl)
              ELSE IF upl.run.cutsFile # "none"
              THEN [upl EXCEPT !.salesData = upl.run.salesFile, !.step = "cuts"]
              ELSE Finish([upl EXCEPT !.salesData = upl.run.salesFile], upl.run.salesFile,
                          "empty")
    /\ UploadUnchanged

\* The promise of parseCorteFile settles.
CutsParsed ==
    /\ upl.step = "cuts"
    /\ upl' = IF upl.run.cutsFile = "broken" THEN Failed(upl)
              ELSE Finish(upl, upl.salesData, upl.run.cutsFile)
    /\ UploadUnchanged

\* The timeout of 1500 ms fires: onDataLoaded(salesData, cutsData)
TimeoutFires ==
    /\ upl.timers # <<>>
    /\ Len(upl.delivered) < MaxCalls
    /\ upl' = [upl EXCEPT !.timers = Tail(@),
                          !.delivered = Append(@, [salesData |-> Head(upl.timers).salesData,
                                                   cutsData |-> Head(upl.timers).cutsData,
                                                   run |-> Head(upl.timers).run,
                                                   error |-> upl.error])]
    /\ UploadUnchanged

NextUpload ==
    \/ \E f \in Files \cup {"none"} : SetSalesFile(f)
    \/ \E f \in Files \cup {"none"} : SetCutsFile(f)
    \/ HandleProcess
    \/ SalesParsed
    \/ CutsParsed
    \/ TimeoutFires

SpecUpload == InitUpload /\ [][NextUpload]_vars

\* A FileReader ends with onload or onerror, so each promise settles; a
\* timeout that was set fires.
FairUpload ==
    /\ SpecUpload
    /\ WF_vars(SalesParsed) /\ WF_vars(CutsParsed) /\ WF_vars(TimeoutFires)

\* What C30 says of one state.
ClaimUploadSafe ==
    /\ upl.step # "idle" => upl.isLoading /\ upl.run.salesFile # "none"
    /\ upl.step = "idle" => ~upl.isLoading
    /\ Len(upl.delivered) + Len(upl.timers) <= 1
    /\ \A i \in 1..Len(upl.delivered) :
          /\ upl.delivered[i].run.salesFile = "rows"
          /\ upl.delivered[i].salesData = "rows"
          /\ upl.delivered[i].run.cutsFile # "broken"
          /\ upl.delivered[i].error = "none"
    /\ upl.error # "none" => upl.timers = <<>> /\ upl.delivered = <<>>

\* C30: for every sequence of file selections and clicks, a run starts only
\* with a sales file; when a run has ended, with a result, with empty sales
\* or with a parse error, isLoading is false again, and every run ends;
\* onDataLoaded is called at most once, after the files of the run were
\* parsed without error to a non-empty sales result, and never when an error
\* is shown.
C30_Uploader ==
    /\ []ClaimUploadSafe
    /\ (upl.isLoading ~> ~upl.isLoading)

\* A run over a sales file and a cuts file ended and onDataLoaded was called.
C30_Witness ==
    /\ pc = "uploader"
    /\ Len(upl.delivered) = 1
    /\ upl.delivered[1].run = [salesFile |-> "rows", cutsFile |-> "rows"]
    /\ ~upl.isLoading

=============================================================================
